---- MODULE Spec2Model ----
(***************************************************************************)
(* A model of cli-config-helpers: gatherConfig(), parseArgv() and          *)
(* validateConfigDescriptors().                                            *)
(*                                                                         *)
(* A JavaScript string is a sequence of chunks.  Data strings (names,      *)
(* argv items, env values) hold one character per chunk; the fixed texts   *)
(* of diagnostic messages are single chunks, with the backtick of the      *)
(* source's text written ^.                                                *)
(***************************************************************************)
EXTENDS Integers, Sequences, FiniteSets, TLC

----------------------------------------------------------------------------
(* JavaScript values *)

Value(t, s, n, d, b) == [t |-> t, s |-> s, n |-> n, d |-> d, b |-> b]

Undefined == Value("undefined", <<>>, 0, 0, FALSE)

Null == Value("null", <<>>, 0, 0, FALSE)

Bool(b) == Value("boolean", <<>>, 0, 0, b)

\* The number n / 10`d.
Num(n, d) == Value("number", <<>>, n, d, FALSE)

NaN == Value("number", <<"NaN">>, 0, 0, FALSE)

\* Infinity (sign > 0) or -Infinity (sign < 0).
Infinity(sign) == Value("number", <<"Infinity">>, sign, 0, FALSE)

Str(s) == Value("string", s, 0, 0, FALSE)

\* A property inherited from Object.prototype, named by its key.
ProtoValue(key) == Value("function", key, 0, 0, FALSE)

isNaN(v) == v.t = "number" /\ v.s = <<"NaN">>

Negate(v) == IF v.s = <<"Infinity">> THEN Infinity(0 - v.n) ELSE Num(0 - v.n, v.d)

Truthy(v) ==
    CASE v.t = "undefined" -> FALSE
      [] v.t = "null" -> FALSE
      [] v.t = "boolean" -> v.b
      [] v.t = "string" -> v.s # <<>>
      [] v.t = "number" -> ~isNaN(v) /\ v.n # 0
      [] OTHER -> TRUE

----------------------------------------------------------------------------
(* Characters and strings *)

Lower == {"a","b","c","d","e","f","g","h","i","j","k","l","m",
          "n","o","p","q","r","s","t","u","v","w","x","y","z"}

Upper == {"A","B","C","D","E","F","G","H","I","J","K","L","M",
          "N","O","P","Q","R","S","T","U","V","W","X","Y","Z"}

Digit == {"0","1","2","3","4","5","6","7","8","9"}

WhiteSpace == {" ", "\t", "\n", "\r"}

S_undefined == <<"u","n","d","e","f","i","n","e","d">>

S_true == <<"t","r","u","e">>

S_false == <<"f","a","l","s","e">>

S_null == <<"n","u","l","l">>

S_Infinity == <<"I","n","f","i","n","i","t","y">>

S_constructor == <<"c","o","n","s","t","r","u","c","t","o","r">>

S_WARNINGS == <<"W","A","R","N","I","N","G","S">>

\* String.prototype.slice(from) and slice(0, to), for 0 <= from, to.
SliceFrom(s, from) == SubSeq(s, from + 1, Len(s))

SliceTo(s, to) == SubSeq(s, 1, IF to < Len(s) THEN to ELSE Len(s))

StartsWith(s, p) == Len(s) >= Len(p) /\ SubSeq(s, 1, Len(p)) = p

\* The length of the longest prefix of s made of characters of set.
RECURSIVE PrefixLen(_, _)
PrefixLen(s, set) ==
    IF s # <<>> /\ Head(s) \in set THEN 1 + PrefixLen(Tail(s), set) ELSE 0

AllIn(s, set) == \A k \in 1..Len(s) : s[k] \in set

RECURSIVE Pow10(_)
Pow10(k) == IF k <= 0 THEN 1 ELSE 10 * Pow10(k - 1)

DigitChar(k) ==
    CASE k = 0 -> "0" [] k = 1 -> "1" [] k = 2 -> "2" [] k = 3 -> "3"
      [] k = 4 -> "4" [] k = 5 -> "5" [] k = 6 -> "6" [] k = 7 -> "7"
      [] k = 8 -> "8" [] OTHER -> "9"

\* The value of a digit character in a radix up to 16, or 99 when c is no digit.
DigitVal(c) ==
    CASE c = "0" -> 0 [] c = "1" -> 1 [] c = "2" -> 2 [] c = "3" -> 3
      [] c = "4" -> 4 [] c = "5" -> 5 [] c = "6" -> 6 [] c = "7" -> 7
      [] c = "8" -> 8 [] c = "9" -> 9
      [] c \in {"a", "A"} -> 10 [] c \in {"b", "B"} -> 11
      [] c \in {"c", "C"} -> 12 [] c \in {"d", "D"} -> 13
      [] c \in {"e", "E"} -> 14 [] c \in {"f", "F"} -> 15
      [] OTHER -> 99

DigitsOf(radix) == {c \in Digit \cup Lower \cup Upper : DigitVal(c) < radix}

\* The integer that the digit string s denotes in radix.
RECURSIVE DigitsToInt(_, _)
DigitsToInt(s, radix) ==
    IF s = <<>> THEN 0
    ELSE DigitsToInt(SubSeq(s, 1, Len(s) - 1), radix) * radix + DigitVal(s[Len(s)])

\* The decimal digits of a natural number.
RECURSIVE NatToString(_)
NatToString(k) ==
    IF k < 10 THEN <<DigitChar(k)>>
    ELSE NatToString(k \div 10) \o <<DigitChar(k % 10)>>

\* n / 10`d with trailing zeros of the fraction removed.
RECURSIVE NormNum(_, _)
NormNum(n, d) ==
    IF n = 0 THEN Num(0, 0)
    ELSE IF d > 0 /\ n % 10 = 0 THEN NormNum(n \div 10, d - 1)
    ELSE IF d < 0 THEN Num(n * Pow10(0 - d), 0)
    ELSE Num(n, d)

\* The fraction digits of k as d decimal places.
RECURSIVE PadLeft(_, _)
PadLeft(s, d) == IF Len(s) >= d THEN s ELSE PadLeft(<<"0">> \o s, d)

\* JsToString() of a value, as `${value}` and `+` on a string apply it.
JsToString(v) ==
    CASE v.t = "string" -> v.s
      [] v.t = "undefined" -> S_undefined
      [] v.t = "null" -> S_null
      [] v.t = "boolean" -> IF v.b THEN S_true ELSE S_false
      [] v.t = "number" ->
            IF isNaN(v) THEN <<"N","a","N">>
            ELSE IF v.s = <<"Infinity">>
                 THEN (IF v.n < 0 THEN <<"-">> ELSE <<>>) \o S_Infinity
            ELSE LET a == IF v.n < 0 THEN 0 - v.n ELSE v.n
                     sign == IF v.n < 0 THEN <<"-">> ELSE <<>>
                 IN IF v.d = 0 THEN sign \o NatToString(a)
                    ELSE sign \o NatToString(a \div Pow10(v.d)) \o <<".">>
                         \o PadLeft(NatToString(a % Pow10(v.d)), v.d)
      [] OTHER -> <<"function Object() { [native code] }">>

----------------------------------------------------------------------------
(* parseFloat() and parseInt() *)

TrimStart(s) == SliceFrom(s, PrefixLen(s, WhiteSpace))

\* The length of the digits that follow a "." at the head of s, or -1 when s
\* does not start with ".".
FractionLen(s) ==
    IF s # <<>> /\ Head(s) = "." THEN PrefixLen(Tail(s), Digit) ELSE 0 - 1

\* The exponent that s holds at its head: "e" or "E", an optional sign, digits.
ExponentOf(s) ==
    IF Len(s) >= 2 /\ s[1] \in {"e", "E"}
    THEN IF s[2] \in {"+", "-"}
         THEN (IF s[2] = "-" THEN 0 - 1 ELSE 1)
              * DigitsToInt(SubSeq(s, 3, 2 + PrefixLen(SliceFrom(s, 2), Digit)), 10)
         ELSE DigitsToInt(SubSeq(s, 2, 1 + PrefixLen(Tail(s), Digit)), 10)
    ELSE 0

\* The number whose integer digits are u[1..nInt], followed when nFrac >= 0 by
\* a "." and nFrac fraction digits, and then by an exponent if there is one.
DecimalOf(sign, u, nInt, nFrac) ==
    IF nFrac <= 0
    THEN IF nInt = 0 THEN NaN
         ELSE NormNum(sign * DigitsToInt(SubSeq(u, 1, nInt), 10),
                      0 - ExponentOf(SliceFrom(u, nInt + (IF nFrac = 0 THEN 1 ELSE 0))))
    ELSE NormNum(sign * DigitsToInt(SubSeq(u, 1, nInt)
                                    \o SubSeq(u, nInt + 2, nInt + 1 + nFrac), 10),
                 nFrac - ExponentOf(SliceFrom(u, nInt + 1 + nFrac)))

UnsignedFloat(sign, u, nInt) ==
    IF StartsWith(u, S_Infinity) THEN Infinity(sign)
    ELSE DecimalOf(sign, u, nInt, FractionLen(SliceFrom(u, nInt)))

SignedFloat(t) ==
    IF t # <<>> /\ Head(t) \in {"+", "-"}
    THEN UnsignedFloat(IF Head(t) = "-" THEN 0 - 1 ELSE 1, Tail(t), PrefixLen(Tail(t), Digit))
    ELSE UnsignedFloat(1, t, PrefixLen(t, Digit))

\* parseFloat(s): the longest prefix of s that is a decimal literal, after any
\* leading white space.
parseFloat(s) == SignedFloat(TrimStart(s))

UnsignedInt(sign, w, radix, n) ==
    IF n = 0 THEN NaN ELSE Num(sign * DigitsToInt(SubSeq(w, 1, n), radix), 0)

\* The digits of u in radix, after the "0x" that radix 16 allows.
PrefixedInt(sign, u, radix) ==
    IF radix = 16 /\ (StartsWith(u, <<"0","x">>) \/ StartsWith(u, <<"0","X">>))
    THEN UnsignedInt(sign, SliceFrom(u, 2), radix,
                     PrefixLen(SliceFrom(u, 2), DigitsOf(radix)))
    ELSE UnsignedInt(sign, u, radix, PrefixLen(u, DigitsOf(radix)))

SignedInt(t, radix) ==
    IF t # <<>> /\ Head(t) \in {"+", "-"}
    THEN PrefixedInt(IF Head(t) = "-" THEN 0 - 1 ELSE 1, Tail(t), radix)
    ELSE PrefixedInt(1, t, radix)

\* parseInt(s, radix) for a radix of 2, 8 or 16: the longest prefix of s that
\* is an integer in that radix, after any leading white space.
parseInt(s, radix) == SignedInt(TrimStart(s), radix)

----------------------------------------------------------------------------
(* gather-config.js: coercion *)

\* A [value, message] pair; threw is set when the call throws a TypeError instead.
Result(val, msg) == [val |-> val, msg |-> msg, threw |-> FALSE]

TypeError == [val |-> Null, msg |-> <<"TypeError">>, threw |-> TRUE]

\* A coercion that takes every string but "true" for false.
stringOrTrueToBooleanLax(begin, identifier, strOrTrue) ==
    IF strOrTrue = Bool(TRUE) \/ strOrTrue = Str(S_true) THEN Result(Bool(TRUE), <<>>)
    ELSE Result(Bool(FALSE), <<>>)

stringOrTrueToBoolean(begin, identifier, strOrTrue) ==
    IF strOrTrue = Str(S_false) THEN Result(Bool(FALSE), <<>>)
    ELSE IF strOrTrue = Bool(TRUE) \/ strOrTrue = Str(S_true) THEN Result(Bool(TRUE), <<>>)
    ELSE Result(Null, begin \o <<": ">> \o identifier \o <<" '">> \o JsToString(strOrTrue)
                      \o <<"' should be boolean 'false' or 'true'">>)

\* `abs.slice` is a TypeError when strOrTrue is not a string.
stringToNumber(begin, identifier, strOrTrue) ==
    IF strOrTrue.t # "string" THEN TypeError
    ELSE LET isNegative == strOrTrue.s # <<>> /\ strOrTrue.s[1] = "-"
             abs == IF isNegative THEN SliceFrom(strOrTrue.s, 1) ELSE strOrTrue.s
             prefix == SliceTo(abs, 2)
             base == CASE prefix = <<"0","b">> -> 2
                       [] prefix = <<"0","x">> -> 16
                       [] prefix = <<"0","o">> -> 8
                       [] OTHER -> 10
             result == IF base = 10 THEN parseFloat(abs)
                       ELSE parseInt(SliceFrom(abs, 2), base)
         IN IF isNaN(result)
            THEN Result(Null, begin \o <<": ">> \o identifier \o <<" '">>
                              \o JsToString(strOrTrue)
                              \o <<"' cannot be parsed to a number">>)
            ELSE Result(IF isNegative THEN Negate(result) ELSE result, <<>>)

stringToType(kind, begin, identifier, strOrTrue) ==
    CASE kind = "boolean" -> stringOrTrueToBoolean(begin, identifier, strOrTrue)
      [] kind = "number" -> stringToNumber(begin, identifier, strOrTrue)
      [] OTHER -> Result(strOrTrue, <<>>)

----------------------------------------------------------------------------
(* Plain JavaScript objects: own keys in insertion order, and their values. *)

S___proto__ == <<"_","_","p","r","o","t","o","_","_">>

\* The property names every plain object inherits from Object.prototype.
ObjectPrototypeKeys ==
    { <<"c","o","n","s","t","r","u","c","t","o","r">>,
      <<"_","_","d","e","f","i","n","e","G","e","t","t","e","r","_","_">>,
      <<"_","_","d","e","f","i","n","e","S","e","t","t","e","r","_","_">>,
      <<"h","a","s","O","w","n","P","r","o","p","e","r","t","y">>,
      <<"_","_","l","o","o","k","u","p","G","e","t","t","e","r","_","_">>,
      <<"_","_","l","o","o","k","u","p","S","e","t","t","e","r","_","_">>,
      <<"i","s","P","r","o","t","o","t","y","p","e","O","f">>,
      <<"p","r","o","p","e","r","t","y","I","s","E","n","u","m","e","r","a","b","l","e">>,
      <<"t","o","S","t","r","i","n","g">>,
      <<"v","a","l","u","e","O","f">>,
      <<"_","_","p","r","o","t","o","_","_">>,
      <<"t","o","L","o","c","a","l","e","S","t","r","i","n","g">> }

EmptyObject == [keys |-> <<>>, val |-> <<>>]

OwnKeys(obj) == {obj.keys[k] : k \in 1..Len(obj.keys)}

\* ToPropertyKey(): a property key that is not a string is converted to one.
ToPropertyKey(k) == JsToString(k)

\* obj[key] = v.  Assigning a primitive to `__proto__` changes nothing.
ObjSet(obj, key, v) ==
    LET k == ToPropertyKey(key)
    IN IF k = S___proto__ THEN obj
       ELSE [keys |-> IF k \in OwnKeys(obj) THEN obj.keys ELSE Append(obj.keys, k),
             val |-> [x \in OwnKeys(obj) \cup {k} |-> IF x = k THEN v ELSE obj.val[x]]]

\* `key in obj`: an own property, or one inherited from Object.prototype.
HasProperty(key, obj) ==
    ToPropertyKey(key) \in OwnKeys(obj) \cup ObjectPrototypeKeys

\* obj[key]
ObjGet(obj, key) ==
    LET k == ToPropertyKey(key)
    IN IF k \in OwnKeys(obj) THEN obj.val[k]
       ELSE IF k \in ObjectPrototypeKeys THEN ProtoValue(k)
       ELSE Undefined

----------------------------------------------------------------------------
(* parse-argv.js *)

ShortChars == {"?"} \cup Upper \cup Lower

LongChars == {"-"} \cup Lower \cup Digit

\* As MatchKeys(), but the key of a long flag is the whole match.
MatchKeysDashed(item) ==
    IF Len(item) >= 4 /\ item[1] = "-" /\ item[2] = "-" /\ item[3] \in Lower
          /\ AllIn(SliceFrom(item, 3), LongChars)
    THEN <<item>>
    ELSE IF Len(item) >= 2 /\ item[1] = "-" /\ AllIn(SliceFrom(item, 1), ShortChars)
    THEN [k \in 1..(Len(item) - 1) |-> <<item[k + 1]>>]
    ELSE <<>>

\* As MatchKeys(), but a long name may be a single character.
MatchKeysLoose(item) ==
    IF Len(item) >= 3 /\ item[1] = "-" /\ item[2] = "-" /\ item[3] \in Lower
          /\ AllIn(SliceFrom(item, 3), LongChars)
    THEN <<SliceFrom(item, 2)>>
    ELSE IF Len(item) >= 2 /\ item[1] = "-" /\ AllIn(SliceFrom(item, 1), ShortChars)
    THEN [k \in 1..(Len(item) - 1) |-> <<item[k + 1]>>]
    ELSE <<>>

\* item.match(/`--([a-z][-a-z0-9]+)$|`-([?A-Za-z])$|`-([?A-Za-z]+)$/), as the
\* keys the match yields: <<>> when there is no match.
MatchKeys(item) ==
    IF Len(item) >= 4 /\ item[1] = "-" /\ item[2] = "-" /\ item[3] \in Lower
          /\ AllIn(SliceFrom(item, 3), LongChars)
    THEN <<SliceFrom(item, 2)>>
    ELSE IF Len(item) >= 2 /\ item[1] = "-" /\ AllIn(SliceFrom(item, 1), ShortChars)
    THEN [k \in 1..(Len(item) - 1) |-> <<item[k + 1]>>]
    ELSE <<>>

\* As SetKeysTrue(), but a key that config holds already keeps its value.
RECURSIVE SetKeysKeep(_, _)
SetKeysKeep(config, keys) ==
    IF keys = <<>> THEN config
    ELSE SetKeysKeep(IF Head(keys) \in OwnKeys(config) THEN config
                     ELSE ObjSet(config, Str(Head(keys)), Bool(TRUE)), Tail(keys))

\* keys.forEach(key => { currentKey = key; config[currentKey] = true })
RECURSIVE SetKeysTrue(_, _)
SetKeysTrue(config, keys) ==
    IF keys = <<>> THEN config
    ELSE SetKeysTrue(ObjSet(config, Str(Head(keys)), Bool(TRUE)), Tail(keys))

ParseStart == [config |-> EmptyObject, ignored |-> <<>>,
               isSkippingStart |-> TRUE, currentKey |-> <<>>]

\* As ParseItem(), but a value leaves config with its own key alone.
ParseItemForgetting(st, item) ==
    LET keys == IF item # <<>> /\ item[1] = "-" THEN MatchKeys(item) ELSE <<>>
    IN IF keys # <<>>
       THEN [config |-> SetKeysTrue(st.config, keys), ignored |-> st.ignored,
             isSkippingStart |-> FALSE, currentKey |-> keys[Len(keys)]]
       ELSE IF st.isSkippingStart \/ st.currentKey = <<>>
       THEN [st EXCEPT !.ignored = Append(st.ignored, item)]
       ELSE [st EXCEPT !.config = ObjSet(EmptyObject, Str(st.currentKey), Str(item)),
                       !.currentKey = <<>>]

\* As ParseItem(), but a token that becomes a value is appended to `ignored`
\* as well.
ParseItemAlsoIgnored(st, item) ==
    LET keys == IF item # <<>> /\ item[1] = "-" THEN MatchKeys(item) ELSE <<>>
    IN IF keys # <<>>
       THEN [config |-> SetKeysTrue(st.config, keys), ignored |-> st.ignored,
             isSkippingStart |-> FALSE, currentKey |-> keys[Len(keys)]]
       ELSE IF st.isSkippingStart \/ st.currentKey = <<>>
       THEN [st EXCEPT !.ignored = Append(st.ignored, item)]
       ELSE [st EXCEPT !.config = ObjSet(st.config, Str(st.currentKey), Str(item)),
                       !.ignored = Append(st.ignored, item),
                       !.currentKey = <<>>]

\* As ParseItem(), but a flag that receives a value stays pending.
ParseItemKeepPending(st, item) ==
    LET keys == IF item # <<>> /\ item[1] = "-" THEN MatchKeys(item) ELSE <<>>
    IN IF keys # <<>>
       THEN [config |-> SetKeysTrue(st.config, keys), ignored |-> st.ignored,
             isSkippingStart |-> FALSE, currentKey |-> keys[Len(keys)]]
       ELSE IF st.isSkippingStart \/ st.currentKey = <<>>
       THEN [st EXCEPT !.ignored = Append(st.ignored, item)]
       ELSE [st EXCEPT !.config = ObjSet(st.config, Str(st.currentKey), Str(item))]

\* As ParseItem(), but the first key of a token is the one left pending.
ParseItemFirstPending(st, item) ==
    LET keys == IF item # <<>> /\ item[1] = "-" THEN MatchKeys(item) ELSE <<>>
    IN IF keys # <<>>
       THEN [config |-> SetKeysTrue(st.config, keys), ignored |-> st.ignored,
             isSkippingStart |-> FALSE, currentKey |-> keys[1]]
       ELSE IF st.isSkippingStart \/ st.currentKey = <<>>
       THEN [st EXCEPT !.ignored = Append(st.ignored, item)]
       ELSE [st EXCEPT !.config = ObjSet(st.config, Str(st.currentKey), Str(item)),
                       !.currentKey = <<>>]

\* As ParseItem(), but a value that a flag receives starts skip mode again.
ParseItemResuming(st, item) ==
    LET keys == IF item # <<>> /\ item[1] = "-" THEN MatchKeys(item) ELSE <<>>
    IN IF keys # <<>>
       THEN [config |-> SetKeysTrue(st.config, keys), ignored |-> st.ignored,
             isSkippingStart |-> FALSE, currentKey |-> keys[Len(keys)]]
       ELSE IF st.isSkippingStart \/ st.currentKey = <<>>
       THEN [st EXCEPT !.ignored = Append(st.ignored, item)]
       ELSE [st EXCEPT !.config = ObjSet(st.config, Str(st.currentKey), Str(item)),
                       !.currentKey = <<>>, !.isSkippingStart = TRUE]

\* One iteration of the loop over argv.
ParseItem(st, item) ==
    LET keys == IF item # <<>> /\ item[1] = "-" THEN MatchKeys(item) ELSE <<>>
    IN IF keys # <<>>
       THEN [config |-> SetKeysTrue(st.config, keys), ignored |-> st.ignored,
             isSkippingStart |-> FALSE, currentKey |-> keys[Len(keys)]]
       ELSE IF st.isSkippingStart \/ st.currentKey = <<>>
       THEN [st EXCEPT !.ignored = Append(st.ignored, item)]
       ELSE [st EXCEPT !.config = ObjSet(st.config, Str(st.currentKey), Str(item)),
                       !.currentKey = <<>>]

RECURSIVE ParseFrom(_, _)
ParseFrom(st, items) ==
    IF items = <<>> THEN st ELSE ParseFrom(ParseItem(st, Head(items)), Tail(items))

parseArgv(argv) ==
    LET st == ParseFrom(ParseStart, argv)
    IN [config |-> st.config, ignored |-> st.ignored]

\* An array as a JavaScript value.
Arr(items) == [t |-> "array", items |-> items]

\* What aintaArray() calls a value that is not of `options.types`.
Article(v) ==
    IF v.t = "null" THEN <<"is null">>
    ELSE IF v.t = "array" THEN <<"is an array">>
    ELSE <<"is type '", v.t, "'">>

\* As aArgv(), but only the first item of an array is looked at.
aArgvFirst(argv) ==
    IF argv.t # "array"
    THEN <<"parseArgv(): ^argv^ ">> \o Article(argv) \o <<" not an array">>
    ELSE IF argv.items = <<>> \/ argv.items[1].t = "string" THEN <<>>
    ELSE <<"parseArgv(): ^argv[0]^ ">> \o Article(argv.items[1])
         \o <<", not the ^options.types^ 'string'">>

\* aintaArray(argv, 'argv', { begin, types:['string'] }) for any value `argv`:
\* <<>> stands for `false`, anything else is the explanation.
aArgv(argv) ==
    IF argv.t # "array"
    THEN <<"parseArgv(): ^argv^ ">> \o Article(argv) \o <<" not an array">>
    ELSE LET bad == {k \in 1..Len(argv.items) : argv.items[k].t # "string"}
         IN IF bad = {} THEN <<>>
            ELSE LET k == CHOOSE x \in bad : \A y \in bad : x <= y
                 IN <<"parseArgv(): ^argv[">> \o NatToString(k - 1) \o <<"]^ ">>
                    \o Article(argv.items[k])
                    \o <<", not the ^options.types^ 'string'">>

----------------------------------------------------------------------------
(* types/validate-config-descriptors.js *)

\* A ConfigDescriptor.  A property that is absent reads as Undefined; hasFallback
\* tells whether the object has a `fallback` property at all.
Descriptor(hasFallback, fallback, kind, nameArgvLong, nameArgvShort, nameEnv, nameReturned) ==
    [hasFallback |-> hasFallback, fallback |-> fallback, kind |-> kind,
     nameArgvLong |-> nameArgvLong, nameArgvShort |-> nameArgvShort,
     nameEnv |-> nameEnv, nameReturned |-> nameReturned]

Kinds == {"boolean", "number", "string"}

MaxNameLen == 32

MinLongLen == 2

\* The 0-based index of the descriptor at position i, as the messages print it.
IndexText(i) == NatToString(i - 1)

\* The schema rules of one descriptor, as the names of the fields that break one.
SchemaFailures(d) ==
    LET optional(v, ok) == v.t = "undefined" \/ (v.t = "string" /\ ok)
        long == d.nameArgvLong.s
        short == d.nameArgvShort.s
        envName == d.nameEnv.s
        ret == d.nameReturned.s
    IN (IF d.fallback.t \in {"boolean", "number", "string", "undefined"}
        THEN {} ELSE {"fallback"})
       \cup (IF d.kind \in Kinds THEN {} ELSE {"kind"})
       \cup (IF optional(d.nameArgvLong,
                    Len(long) >= MinLongLen /\ Len(long) <= MaxNameLen
                    /\ long[1] \in Lower /\ AllIn(Tail(long), LongChars))
             THEN {} ELSE {"nameArgvLong"})
       \cup (IF optional(d.nameArgvShort, Len(short) = 1 /\ short[1] \in ShortChars)
             THEN {} ELSE {"nameArgvShort"})
       \cup (IF optional(d.nameEnv,
                    Len(envName) >= 1 /\ Len(envName) <= MaxNameLen
                    /\ envName[1] \in Upper
                    /\ AllIn(Tail(envName), {"_"} \cup Digit \cup Upper))
             THEN {} ELSE {"nameEnv"})
       \cup (IF d.nameReturned.t = "string"
                /\ Len(ret) >= 1 /\ Len(ret) <= MaxNameLen
                /\ ret[1] \in {"_"} \cup Lower \cup Upper
                /\ AllIn(Tail(ret), {"_"} \cup Digit \cup Lower \cup Upper)
             THEN {} ELSE {"nameReturned"})

\* .filter(result => result) and .join('\n'): the messages that are not <<>>,
\* joined by newlines.
RECURSIVE JoinResults(_)
JoinResults(results) ==
    IF results = <<>> THEN <<>>
    ELSE LET rest == JoinResults(Tail(results))
         IN IF Head(results) = <<>> THEN rest
            ELSE IF rest = <<>> THEN Head(results)
            ELSE Head(results) \o <<"\n">> \o rest

CollisionFields == <<"nameArgvLong", "nameArgvShort", "nameEnv", "nameReturned">>

\* The four maps of names already seen, each from a name to the index that used it.
NoNamesSeen == [nameArgvLong |-> EmptyObject, nameArgvShort |-> EmptyObject,
                nameEnv |-> EmptyObject, nameReturned |-> EmptyObject]

\* One call of the collision callback, for descriptor i and its fields from
\* position f of CollisionFields on: the message it returns (<<>> for none) and
\* the maps it leaves.  A field that collides ends the callback.
RECURSIVE CollisionStep(_, _, _, _, _)
CollisionStep(cds, i, f, seen, pfx) ==
    IF f > Len(CollisionFields) THEN [msg |-> <<>>, seen |-> seen]
    ELSE LET field == CollisionFields[f]
             name == cds[i][field]
         IN IF field # "nameReturned" /\ ~Truthy(name)
            THEN CollisionStep(cds, i, f + 1, seen, pfx)
            ELSE IF HasProperty(name, seen[field])
            THEN [msg |-> pfx \o <<"^configDescriptors[">> \o IndexText(i)
                          \o <<"].", field, "^ '">> \o JsToString(name)
                          \o <<"' was already used by ^configDescriptors[">>
                          \o JsToString(ObjGet(seen[field], name)) \o <<"]^">>,
                  seen |-> seen]
            ELSE CollisionStep(cds, i, f + 1,
                     [seen EXCEPT ![field] = ObjSet(seen[field], name, Num(i - 1, 0))],
                     pfx)

\* The collision messages of descriptors i.., joined by newlines.
RECURSIVE CollisionsFrom(_, _, _, _)
CollisionsFrom(cds, i, seen, pfx) ==
    IF i > Len(cds) THEN <<>>
    ELSE LET step == CollisionStep(cds, i, 1, seen, pfx)
             rest == CollisionsFrom(cds, i + 1, step.seen, pfx)
         IN IF step.msg = <<>> THEN rest
            ELSE IF rest = <<>> THEN step.msg ELSE step.msg \o <<"\n">> \o rest

\* What aintaObject() returns for descriptor i: <<>> when it fits the schema.
SchemaResult(cds, i, pfx) ==
    IF SchemaFailures(cds[i]) = {} THEN <<>>
    ELSE pfx \o <<"^configDescriptors[">> \o IndexText(i) \o <<"].">>
         \o <<CHOOSE f \in SchemaFailures(cds[i]) : TRUE>>
         \o <<"^ breaks its schema rule">>

\* The message for descriptor i when it has no source and no fallback.
AllUndefinedResult(cds, i, pfx) ==
    IF cds[i].fallback.t = "undefined" /\ cds[i].nameArgvLong.t = "undefined"
       /\ cds[i].nameArgvShort.t = "undefined" /\ cds[i].nameEnv.t = "undefined"
    THEN pfx \o <<"^configDescriptors[">> \o IndexText(i) \o <<"]^ '">>
         \o JsToString(cds[i].nameReturned)
         \o <<"' has no possible value, because ^fallback^, ^nameArgvLong^, ^nameArgvShort^ and ^nameEnv^ are all undefined">>
    ELSE <<>>

\* validateConfigDescriptors(configDescriptors, begin) for an array of plain
\* objects: <<>> stands for `false`, anything else is the explanation.
validateConfigDescriptors(cds, bgn) ==
    LET pfx == IF bgn # <<>> THEN bgn \o <<": ">> ELSE <<>>
        aSchemaResults ==
            JoinResults([k \in 1..Len(cds) |-> SchemaResult(cds, k, pfx)])
        aAllUndefinedResults ==
            JoinResults([k \in 1..Len(cds) |-> AllUndefinedResult(cds, k, pfx)])
        aCollisionResults == CollisionsFrom(cds, 1, NoNamesSeen, pfx)
    IN IF aSchemaResults # <<>> THEN aSchemaResults
       ELSE IF aAllUndefinedResults # <<>> THEN aAllUndefinedResults
       ELSE aCollisionResults

----------------------------------------------------------------------------
(* gather-config.js: gatherConfig() *)

\* The default `begin` of gatherConfig().
begin == <<"gatherConfig()">>

\* The locals of one call: L.out, L.useFallbacks and L.argvConfig are the
\* source's variables, L.parsed tells whether `argv` has been tokenized yet,
\* L.pc is the place the call has reached and L.error the message it threw.
Throw(L, msg) == [L EXCEPT !.pc = "thrown", !.error = msg]

every(useFallbacks) == \A k \in DOMAIN useFallbacks : ~useFallbacks[k]

\* As recordInOutput(), but a warning is put before the earlier ones.
recordInOutputBefore(L, nameReturned, i, kind, bgn, identifier, strOrTrue) ==
    LET result == stringToType(kind, bgn, identifier, strOrTrue)
    IN IF result.threw THEN Throw(L, result.msg)
       ELSE IF result.msg = <<>>
       THEN [L EXCEPT !.out = ObjSet(L.out, nameReturned, result.val),
                      !.useFallbacks[i] = FALSE]
       ELSE [L EXCEPT !.out = ObjSet(L.out, Str(S_WARNINGS),
                         Str(result.msg \o <<"\n">>
                             \o JsToString(ObjGet(L.out, Str(S_WARNINGS)))))]

recordInOutput(L, nameReturned, i, kind, bgn, identifier, strOrTrue) ==
    LET result == stringToType(kind, bgn, identifier, strOrTrue)
    IN IF result.threw THEN Throw(L, result.msg)
       ELSE IF result.msg = <<>>
       THEN [L EXCEPT !.out = ObjSet(L.out, nameReturned, result.val),
                      !.useFallbacks[i] = FALSE]
       ELSE [L EXCEPT !.out = ObjSet(L.out, Str(S_WARNINGS),
                         Str(JsToString(ObjGet(L.out, Str(S_WARNINGS)))
                             \o result.msg \o <<"\n">>))]

\* Lines 105-108 and 164-168: the callback of configDescriptors.forEach() over
\* `env`, for the descriptor at L.i.  skip is set for the loop that passes over
\* the descriptors already found.
envCallback(In, L, skip) ==
    LET d == In.configDescriptors[L.i]
    IN IF skip /\ L.useFallbacks[L.i] = FALSE THEN L
       ELSE IF HasProperty(d.nameEnv, In.env)
       THEN recordInOutput(L, d.nameReturned, L.i, d.kind, begin,
                <<"^env.">> \o JsToString(d.nameEnv) \o <<"^">>,
                ObjGet(In.env, d.nameEnv))
       ELSE L

\* Lines 141-145: the key of argvConfig under which the value of d is read.
argvKey(d, argvConfig) ==
    IF HasProperty(d.nameArgvLong, argvConfig) THEN d.nameArgvLong
    ELSE IF HasProperty(d.nameArgvShort, argvConfig) THEN d.nameArgvShort
    ELSE Str(<<>>)

\* Lines 146-150
argvIdentifier(d, argvConfig) ==
    IF HasProperty(d.nameArgvLong, argvConfig)
    THEN <<"'--">> \o JsToString(d.nameArgvLong) \o <<"' in ^argv^">>
    ELSE IF HasProperty(d.nameArgvShort, argvConfig)
    THEN <<"'-">> \o JsToString(d.nameArgvShort) \o <<"' in ^argv^">>
    ELSE <<>>

\* Lines 139-153: the callback of configDescriptors.forEach() over the
\* tokenized `argv`, for the descriptor at L.i.
argvCallback(In, L) ==
    LET d == In.configDescriptors[L.i]
    IN IF L.useFallbacks[L.i] = FALSE THEN L
       ELSE IF Truthy(argvKey(d, L.argvConfig))
       THEN recordInOutput(L, d.nameReturned, L.i, d.kind, begin,
                argvIdentifier(d, L.argvConfig),
                ObjGet(L.argvConfig, argvKey(d, L.argvConfig)))
       ELSE L

\* The object that the reduce() builds for one of the two argv names: a key for
\* each descriptor whose name is truthy.
RECURSIVE DeclaredNames(_, _, _)
DeclaredNames(cds, field, i) ==
    IF i = 0 THEN EmptyObject
    ELSE LET names == DeclaredNames(cds, field, i - 1)
         IN IF Truthy(cds[i][field]) THEN ObjSet(names, cds[i][field], Bool(TRUE))
            ELSE names

\* The keys of argvConfig, in Object.keys() order, that no descriptor declares.
UnexpectedKeys(In, L) ==
    LET nameArgvLongs == DeclaredNames(In.configDescriptors, "nameArgvLong",
                                       Len(In.configDescriptors))
        nameArgvShorts == DeclaredNames(In.configDescriptors, "nameArgvShort",
                                        Len(In.configDescriptors))
    IN SelectSeq(L.argvConfig.keys,
                 LAMBDA key : ~HasProperty(Str(key), nameArgvLongs)
                              /\ ~HasProperty(Str(key), nameArgvShorts))

UnexpectedMessage(key) ==
    begin \o <<": '">> \o (IF Len(key) = 1 THEN <<"-">> ELSE <<"--">>) \o key
    \o <<"' in ^argv^ is not defined in ^configDescriptors^, and ^options.allowUnexpectedArgv^ is ^false^">>

MandatoryMessage(i, nameReturned, hasArgv, hasEnv) ==
    begin \o <<": ^configDescriptors[">> \o IndexText(i) \o <<"]^ '">>
    \o JsToString(nameReturned) \o <<"' is mandatory, but it has no ^fallback^ - ">>
    \o (IF ~hasEnv /\ ~hasArgv THEN <<"^argv^ and ^env^ do not contain this value">>
        ELSE IF hasEnv /\ ~hasArgv
        THEN <<"^argv^ does not contain it, and it is invalid in ^env^">>
        ELSE IF ~hasEnv /\ hasArgv
        THEN <<"it is invalid in ^argv^, and ^env^ does not contain it">>
        ELSE <<"it is invalid in ^argv^, and also invalid in ^env^">>)

\* Lines 172-192: the callback of useFallbacks.forEach(), for index L.i.
fallbackCallback(In, L) ==
    LET desc == In.configDescriptors[L.i]
        hasArgv == HasProperty(desc.nameArgvLong, L.argvConfig)
                   \/ HasProperty(desc.nameArgvShort, L.argvConfig)
        hasEnv == HasProperty(desc.nameEnv, In.env)
    IN IF ~L.useFallbacks[L.i] THEN L
       ELSE IF ~desc.hasFallback
       THEN Throw(L, MandatoryMessage(L.i, desc.nameReturned, hasArgv, hasEnv))
       ELSE [L EXCEPT !.out = ObjSet(L.out, desc.nameReturned, desc.fallback)]

\* The locals when gatherConfig() is entered.
Entered == [pc |-> "validate", i |-> 1, out |-> EmptyObject, useFallbacks |-> <<>>,
            argvConfig |-> EmptyObject, parsed |-> FALSE, error |-> <<>>]

\* After the callback of a forEach() has left M: the exception it threw goes
\* on, the loop moves to the next descriptor, or the code after the loop takes
\* the call to pc.
LoopEnd(In, M, pc) ==
    IF M.pc = "thrown" THEN M
    ELSE IF M.i < Len(In.configDescriptors) THEN [M EXCEPT !.i = M.i + 1]
    ELSE [M EXCEPT !.pc = pc, !.i = 1]

\* aEnv(env, 'env', { types:['string'] }): the explanation for a value of
\* `env` that is no string, <<>> for none.
aEnv(e) ==
    LET bad == {k \in 1..Len(e.keys) : e.val[e.keys[k]].t # "string"}
    IN IF bad = {} THEN <<>>
       ELSE LET k == CHOOSE x \in bad : \A y \in bad : x <= y
            IN begin \o <<": ^env.">> \o e.keys[k] \o <<"^ ">>
               \o Article(e.val[e.keys[k]])
               \o <<", not the ^options.types^ 'string'">>

\* aOptions(options, 'options'), with the schema of lines 78-82: the
\* explanation for the first option that is neither a boolean nor undefined.
aOptions(o) ==
    LET message(name) ==
            begin \o <<": ^options.", name, "^ ">> \o Article(o[name])
            \o <<", not one of the ^options.types^ 'boolean:undefined'">>
    IN IF o.allowUnexpectedArgv.t \notin {"boolean", "undefined"}
       THEN message("allowUnexpectedArgv")
       ELSE IF o.preferEnv.t \notin {"boolean", "undefined"}
       THEN message("preferEnv")
       ELSE <<>>

\* Lines 69-100: the arguments are validated and the locals prepared.  Every
\* `argv` of the calls explored is an array of strings.
ValidateStep(In, L) ==
    LET aCDs == validateConfigDescriptors(In.configDescriptors, begin)
        aResults == JoinResults(<<aEnv(In.env), aOptions(In.options)>>)
    IN IF aCDs # <<>> THEN Throw(L, aCDs)
       ELSE IF aResults # <<>> THEN Throw(L, aResults)
       ELSE [L EXCEPT !.pc = IF Truthy(In.options.preferEnv) THEN "envFirst" ELSE "parse",
                      !.useFallbacks = [k \in 1..Len(In.configDescriptors) |-> TRUE],
                      !.out = ObjSet(EmptyObject, Str(S_WARNINGS), Str(<<>>))]

\* As EnvFirstStep(), but `argv` is tokenized whatever `env` has supplied.
EnvFirstStepOn(In, L) ==
    LET M == IF In.configDescriptors = <<>> THEN L ELSE envCallback(In, L, FALSE)
    IN LoopEnd(In, M, "parse")

\* Lines 104-114: with preferEnv, `env` is scanned first, one descriptor a step.
\* forEach() calls nothing for an empty list.
EnvFirstStep(In, L) ==
    LET M == IF In.configDescriptors = <<>> THEN L ELSE envCallback(In, L, FALSE)
    IN LoopEnd(In, M, IF every(M.useFallbacks) THEN "returned" ELSE "parse")

\* Line 119: `argv` is tokenized.
ParseStep(In, L) ==
    [L EXCEPT !.argvConfig = parseArgv(In.argv).config, !.parsed = TRUE, !.pc = "check"]

\* Lines 122-136: the first key of `argv` that no descriptor declares throws.
CheckStep(In, L) ==
    LET unexpected == UnexpectedKeys(In, L)
    IN IF ~Truthy(In.options.allowUnexpectedArgv) /\ unexpected # <<>>
       THEN Throw(L, UnexpectedMessage(Head(unexpected)))
       ELSE [L EXCEPT !.pc = "argvScan"]

\* Lines 139-158: the tokenized `argv` is scanned, one descriptor a step.
ArgvScanStep(In, L) ==
    LET M == IF In.configDescriptors = <<>> THEN L ELSE argvCallback(In, L)
    IN LoopEnd(In, M, IF Truthy(In.options.preferEnv) THEN "fallbacks"
                      ELSE IF every(M.useFallbacks) THEN "returned"
                      ELSE "envScan")

\* Lines 163-169: without preferEnv, `env` is scanned after `argv`.
EnvScanStep(In, L) ==
    LoopEnd(In, IF In.configDescriptors = <<>> THEN L ELSE envCallback(In, L, TRUE),
            "fallbacks")

\* Lines 172-194: the fallbacks are used, or a mandatory value is missed.
FallbacksStep(In, L) ==
    LoopEnd(In, IF In.configDescriptors = <<>> THEN L ELSE fallbackCallback(In, L),
            "returned")

\* The step that the call takes from L.
GatherStep(In, L) ==
    CASE L.pc = "validate" -> ValidateStep(In, L)
      [] L.pc = "envFirst" -> EnvFirstStep(In, L)
      [] L.pc = "parse" -> ParseStep(In, L)
      [] L.pc = "check" -> CheckStep(In, L)
      [] L.pc = "argvScan" -> ArgvScanStep(In, L)
      [] L.pc = "envScan" -> EnvScanStep(In, L)
      [] L.pc = "fallbacks" -> FallbacksStep(In, L)
      [] OTHER -> L

\* gatherConfig(configDescriptors, env, argv, options), run to its end.
RECURSIVE RunFrom(_, _)
RunFrom(In, L) ==
    IF L.pc \in {"returned", "thrown"} THEN L ELSE RunFrom(In, GatherStep(In, L))

gatherConfig(In) == RunFrom(In, Entered)

----------------------------------------------------------------------------
(* The calls explored *)

\* The longest `argv` of a call with one descriptor and a plain `env`.
MaxArgv == 3

\* The longest `argv` of every other call.
MaxArgvWide == 1

\* The longest raw string of the calls that explore number coercion.
MaxRaw == 4

N_long == Str(<<"a","a">>)

N_short == Str(<<"a">>)

N_env == Str(<<"A">>)

N_env2 == Str(<<"B">>)

N_returned == Str(<<"r">>)

N_returned2 == Str(<<"s">>)

RECURSIVE SeqsUpTo(_, _)
SeqsUpTo(S, n) ==
    IF n <= 0 THEN {<<>>}
    ELSE LET shorter == SeqsUpTo(S, n - 1)
         IN shorter \cup {Append(s, x) : s \in {q \in shorter : Len(q) = n - 1}, x \in S}

\* The items of `argv`: the long and the short flag of the first descriptor and
\* a raw value, fit for a number or a string and unfit for a boolean.
CoreItems == {<<"-","-">> \o N_long.s, <<"-">> \o N_short.s, <<"7">>}

\* Two flags that no descriptor can declare.
OddItems == {<<"-","-">> \o S_undefined, <<"-","-">> \o S_constructor}

\* The `argv` lists of at most n items: core items, after at most one odd flag.
ArgvUpTo(n) ==
    SeqsUpTo(CoreItems, n)
    \cup {<<x>> \o l : x \in OddItems, l \in SeqsUpTo(CoreItems, n - 1)}

\* The first descriptor: any kind, with or without a fallback and each name.
FirstDescriptors ==
    {Descriptor(fb # Undefined, fb, kind, long, short, envName, N_returned) :
        fb \in {Undefined, Num(9, 0)}, kind \in Kinds,
        long \in {Undefined, N_long}, short \in {Undefined, N_short},
        envName \in {Undefined, N_env}}

\* The second descriptor, when there is one: a boolean that only `env` supplies,
\* or a fallback under the name WARNINGS.
SecondDescriptors ==
    {Descriptor(TRUE, Str(<<"d">>), "boolean", Undefined, Undefined, N_env2, N_returned2),
     Descriptor(TRUE, Str(<<"d">>), "string", Undefined, Undefined, Undefined,
                Str(S_WARNINGS))}

DescriptorLists ==
    {<<d>> : d \in FirstDescriptors}
    \cup {<<d, e>> : d \in FirstDescriptors, e \in SecondDescriptors}

\* An `env` object with the given value (Undefined for none) under each key.
EnvOf(a, b, u) ==
    LET e1 == IF a = Undefined THEN EmptyObject ELSE ObjSet(EmptyObject, N_env, a)
        e2 == IF b = Undefined THEN e1 ELSE ObjSet(e1, N_env2, b)
    IN IF u = Undefined THEN e2 ELSE ObjSet(e2, Str(S_undefined), u)

\* `env` with the first descriptor's key alone.
PlainEnvs == {EnvOf(a, Undefined, Undefined) :
                 a \in {Undefined, Str(S_true), Str(S_false), Str(<<"7">>)}}

\* `env` with the key of the second descriptor, or with the key "undefined".
WideEnvs ==
    {EnvOf(a, b, u) : a \in {Undefined, Str(S_true), Str(S_false), Str(<<"7">>)},
                      b \in {Undefined, Str(S_true), Str(<<"7">>)},
                      u \in {Undefined, Str(S_true)}}

OptionsSet ==
    [allowUnexpectedArgv : {Bool(FALSE), Bool(TRUE)}, preferEnv : {Undefined, Bool(TRUE)}]

\* The calls with one descriptor and a plain `env`: every `argv` up to MaxArgv.
IsPlain(cds, e, a) ==
    /\ cds \in {<<d>> : d \in FirstDescriptors}
    /\ e \in PlainEnvs
    /\ a \in ArgvUpTo(MaxArgv)

\* The other calls: every `argv` up to MaxArgvWide, and an `env` where the key
\* of the second descriptor is set only when that descriptor is on the list.
IsWide(cds, e, a) ==
    /\ cds \in DescriptorLists
    /\ e \in WideEnvs
    /\ a \in ArgvUpTo(MaxArgvWide)
    /\ HasProperty(N_env2, e) => \E k \in 1..Len(cds) : cds[k].nameEnv = N_env2

\* The descriptors that set `fallback` to undefined explicitly.
ExplicitDescriptors ==
    {Descriptor(TRUE, Undefined, kind, long, short, envName, N_returned) :
        kind \in Kinds, long \in {Undefined, N_long},
        short \in {Undefined, N_short}, envName \in {Undefined, N_env}}

\* The calls with one such descriptor, a plain `env` and an `argv` up to
\* MaxArgvWide.
IsExplicit(cds, e, a) ==
    /\ cds \in {<<d>> : d \in ExplicitDescriptors}
    /\ e \in PlainEnvs
    /\ a \in ArgvUpTo(MaxArgvWide)

\* The calls with no descriptor at all.
IsEmpty(cds, e, a) ==
    /\ cds = <<>>
    /\ e \in PlainEnvs
    /\ a \in ArgvUpTo(MaxArgvWide)

\* The characters of the raw strings that explore number coercion.
RawChars == {"-", "0", "1", "8", "b", "x", "o", "A", "."}

\* The descriptor of the calls that explore number coercion.
NumberDescriptor ==
    Descriptor(TRUE, Num(9, 0), "number", Undefined, Undefined, N_env, N_returned)

----------------------------------------------------------------------------
(* The state machine: one call of gatherConfig() *)

VARIABLES configDescriptors, env, argv, options,
          pc, i, out, useFallbacks, argvConfig, parsed, error,
          config, ignored, isSkippingStart, currentKey

vars == <<configDescriptors, env, argv, options,
          pc, i, out, useFallbacks, argvConfig, parsed, error,
          config, ignored, isSkippingStart, currentKey>>

\* The locals of parseArgv(), which gatherConfig() calls in one step.
tokenizer == <<config, ignored, isSkippingStart, currentKey>>

TokenizerIs(st) ==
    /\ config = st.config
    /\ ignored = st.ignored
    /\ isSkippingStart = st.isSkippingStart
    /\ currentKey = st.currentKey

inputs == <<configDescriptors, env, argv, options>>

In == [configDescriptors |-> configDescriptors, env |-> env, argv |-> argv,
       options |-> options]

Locals == [pc |-> pc, i |-> i, out |-> out, useFallbacks |-> useFallbacks,
           argvConfig |-> argvConfig, parsed |-> parsed, error |-> error]

Assign(L) ==
    /\ pc' = L.pc
    /\ i' = L.i
    /\ out' = L.out
    /\ useFallbacks' = L.useFallbacks
    /\ argvConfig' = L.argvConfig
    /\ parsed' = L.parsed
    /\ error' = L.error

\* gatherConfig() is entered.
Enter ==
    /\ pc = Entered.pc
    /\ i = Entered.i
    /\ out = Entered.out
    /\ useFallbacks = Entered.useFallbacks
    /\ argvConfig = Entered.argvConfig
    /\ parsed = Entered.parsed
    /\ error = Entered.error

Init ==
    /\ \/ IsPlain(configDescriptors, env, argv)
       \/ IsWide(configDescriptors, env, argv)
       \/ IsExplicit(configDescriptors, env, argv)
       \/ IsEmpty(configDescriptors, env, argv)
    /\ options \in OptionsSet
    /\ Enter
    /\ TokenizerIs(ParseStart)

\* The calls that explore the shapes of `env` and `options`: a value of `env`
\* that is a number, options that are a string or a number.
ShapedOptions ==
    [allowUnexpectedArgv : {Bool(FALSE), Str(<<"n","o","p","e">>)},
     preferEnv : {Undefined, Bool(TRUE), Num(123, 0)}]

InitShapes ==
    /\ configDescriptors \in {<<d>> : d \in FirstDescriptors}
    /\ env \in {EmptyObject, EnvOf(Str(S_true), Undefined, Undefined),
                 EnvOf(Num(1, 0), Undefined, Undefined)}
    /\ argv \in ArgvUpTo(MaxArgvWide)
    /\ options \in ShapedOptions
    /\ Enter
    /\ TokenizerIs(ParseStart)

\* The longest `argv` of the calls whose second descriptor returns under the
\* name WARNINGS.
MaxArgvReserved == 2

\* A string that `env` supplies under the name WARNINGS.
ReservedDescriptor ==
    Descriptor(TRUE, Str(<<"d">>), "string", Undefined, Undefined, N_env2, Str(S_WARNINGS))

\* The calls that explore a descriptor returning under the name WARNINGS, which
\* validateConfigDescriptors() accepts.
InitReserved ==
    /\ configDescriptors \in {<<d, ReservedDescriptor>> : d \in FirstDescriptors}
    /\ env \in {EnvOf(a, b, Undefined) : a \in {Undefined, Str(S_true), Str(<<"7">>)},
                                         b \in {Undefined, Str(<<"7">>)}}
    /\ argv \in ArgvUpTo(MaxArgvReserved)
    /\ options \in OptionsSet
    /\ Enter
    /\ TokenizerIs(ParseStart)

\* The calls that explore number coercion: one number that `env` supplies.
InitNumber ==
    /\ configDescriptors = <<NumberDescriptor>>
    /\ \E raw \in SeqsUpTo(RawChars, MaxRaw) : env = EnvOf(Str(raw), Undefined, Undefined)
    /\ argv = <<>>
    /\ options \in OptionsSet
    /\ Enter
    /\ TokenizerIs(ParseStart)

Validate == pc = "validate" /\ Assign(ValidateStep(In, Locals)) /\ UNCHANGED <<inputs, tokenizer>>

EnvFirst == pc = "envFirst" /\ Assign(EnvFirstStep(In, Locals)) /\ UNCHANGED <<inputs, tokenizer>>

Parse == pc = "parse" /\ Assign(ParseStep(In, Locals)) /\ UNCHANGED <<inputs, tokenizer>>

Check == pc = "check" /\ Assign(CheckStep(In, Locals)) /\ UNCHANGED <<inputs, tokenizer>>

ArgvScan == pc = "argvScan" /\ Assign(ArgvScanStep(In, Locals)) /\ UNCHANGED <<inputs, tokenizer>>

EnvScan == pc = "envScan" /\ Assign(EnvScanStep(In, Locals)) /\ UNCHANGED <<inputs, tokenizer>>

Fallbacks == pc = "fallbacks" /\ Assign(FallbacksStep(In, Locals)) /\ UNCHANGED <<inputs, tokenizer>>

Next == Validate \/ EnvFirst \/ Parse \/ Check \/ ArgvScan \/ EnvScan \/ Fallbacks

Spec == Init /\ [][Next]_vars

\* The calls that explore number coercion.
SpecNumber == InitNumber /\ [][Next]_vars

\* The calls that explore the shapes of the arguments.
SpecShapes == InitShapes /\ [][Next]_vars

\* The calls that explore the name WARNINGS.
SpecReserved == InitReserved /\ [][Next]_vars

----------------------------------------------------------------------------
(* The state machine: one call of parseArgv() *)

\* The longest array of strings that parseArgv() is called with.
MaxTokens == 4

\* The longest array that holds something other than strings.
MaxMixed == 2

Tokens ==
    { <<"-","-","a","b">>, <<"-","a">>, <<"-","a","b">>, <<"-","a","a">>,
      <<"x">>, <<"-">>, <<"-","-","a">>, <<>> }

MixedItems == {Str(<<"x">>), Str(<<"-","a">>), Num(1, 0), Null, Arr(<<>>)}

StringsOf(items) == [k \in 1..Len(items) |-> Str(items[k])]

\* The arguments explored: arrays of strings, arrays that hold something else
\* too, and values that are no array.
IsStrings(a) == \E items \in SeqsUpTo(Tokens, MaxTokens) : a = Arr(StringsOf(items))

IsMixed(a) == \E items \in SeqsUpTo(MixedItems, MaxMixed) : a = Arr(items)

IsNoArray(a) == a \in {Null, Undefined, Str(<<"x">>), Num(1, 0)}

\* The longest array of the calls that explore tokens with a leading dash.
MaxDashes == 3

DashTokens ==
    { <<"-","-">>, <<"-","1">>, <<"-","-","A","b">>, <<"-","-","a","b","?">>,
      <<"-","a","1">>, <<"-","-","a","b">>, <<"-","a">> }

IsDashes(a) == \E items \in SeqsUpTo(DashTokens, MaxDashes) : a = Arr(StringsOf(items))

\* The state of the loop over `argv`.
Loop == [config |-> config, ignored |-> ignored,
         isSkippingStart |-> isSkippingStart, currentKey |-> currentKey]

AssignLoop(st) ==
    /\ config' = st.config
    /\ ignored' = st.ignored
    /\ isSkippingStart' = st.isSkippingStart
    /\ currentKey' = st.currentKey

\* The item of `argv` that the loop is at.
Item == argv.items[i].s

gatherLocals == <<out, useFallbacks, argvConfig, parsed>>

InitParse ==
    /\ \/ IsStrings(argv)
       \/ IsDashes(argv)
       \/ IsMixed(argv)
       \/ IsNoArray(argv)
    /\ configDescriptors = <<>>
    /\ env = EmptyObject
    /\ options = [allowUnexpectedArgv |-> Bool(TRUE), preferEnv |-> Undefined]
    /\ pc = "parseArgv"
    /\ i = 1
    /\ out = EmptyObject
    /\ useFallbacks = <<>>
    /\ argvConfig = EmptyObject
    /\ parsed = FALSE
    /\ error = <<>>
    /\ TokenizerIs(ParseStart)

\* `argv` is validated, and the locals are initialised.
ArgvCheck ==
    /\ pc = "parseArgv"
    /\ IF aArgv(argv) # <<>>
       THEN pc' = "thrown" /\ error' = aArgv(argv)
       ELSE pc' = "loop" /\ error' = error
    /\ i' = 1
    /\ AssignLoop(ParseStart)
    /\ UNCHANGED <<inputs, gatherLocals>>

\* One iteration of the loop.
ArgvItem ==
    /\ pc = "loop"
    /\ i <= Len(argv.items)
    /\ AssignLoop(ParseItem(Loop, Item))
    /\ i' = i + 1
    /\ UNCHANGED <<inputs, gatherLocals, pc, error>>

\* return { config, ignored }
ArgvReturn ==
    /\ pc = "loop"
    /\ i > Len(argv.items)
    /\ pc' = "returned"
    /\ UNCHANGED <<inputs, gatherLocals, i, error, tokenizer>>

NextParse == ArgvCheck \/ ArgvItem \/ ArgvReturn

SpecParse == InitParse /\ [][NextParse]_vars

----------------------------------------------------------------------------
(* The vocabulary of the properties *)

Returned == pc = "returned"

Thrown == pc = "thrown"

Finished == Returned \/ Thrown

\* validateConfigDescriptors() accepts the descriptors of the call.
Accepted == validateConfigDescriptors(configDescriptors, begin) = <<>>

\* The map that `argv` tokenizes to.
Tokenized == parseArgv(argv).config

\* obj holds a value under a name that a descriptor sets.
Holds(obj, name) == name.t = "string" /\ name.s \in OwnKeys(obj)

ArgvHolds(d) == Holds(Tokenized, d.nameArgvLong) \/ Holds(Tokenized, d.nameArgvShort)

\* The value of `argv` for d: the one under its long name, else under its short.
ArgvValue(d) ==
    IF Holds(Tokenized, d.nameArgvLong) THEN Tokenized.val[d.nameArgvLong.s]
    ELSE Tokenized.val[d.nameArgvShort.s]

EnvHolds(d) == Holds(env, d.nameEnv)

EnvValue(d) == env.val[d.nameEnv.s]

\* v coerces under kind, and the value it coerces to.
Coerces(kind, v) ==
    LET result == stringToType(kind, begin, <<>>, v)
    IN ~result.threw /\ result.msg = <<>>

Coerced(kind, v) == stringToType(kind, begin, <<>>, v).val

\* The keys of the tokenized `argv`, in order, that are the long or the short
\* name of no descriptor.
Undeclared(cds, tokenized) ==
    SelectSeq(tokenized.keys,
              LAMBDA key : \A k \in 1..Len(cds) :
                               /\ cds[k].nameArgvLong # Str(key)
                               /\ cds[k].nameArgvShort # Str(key))

\* The call is one that the check of unexpected `argv` keys lets pass.
ArgvAllowed ==
    Truthy(options.allowUnexpectedArgv) \/ Undeclared(configDescriptors, Tokenized) = <<>>

----------------------------------------------------------------------------
(* C1 *)

\* C1: a descriptor with an argv name and a nameEnv, for which `argv` and `env`
\* both hold a value that coerces under its kind, is returned with the value
\* from `env` when preferEnv is true and with the value from `argv` otherwise.
C1_Precedence ==
    Returned =>
        \A k \in 1..Len(configDescriptors) :
            LET d == configDescriptors[k]
            IN (/\ ArgvHolds(d) /\ EnvHolds(d)
                /\ Coerces(d.kind, ArgvValue(d)) /\ Coerces(d.kind, EnvValue(d)))
               => ObjGet(out, d.nameReturned)
                    = IF Truthy(options.preferEnv) THEN Coerced(d.kind, EnvValue(d))
                      ELSE Coerced(d.kind, ArgvValue(d))

----------------------------------------------------------------------------
(* C2 *)

\* A descriptor that sets a fallback and none of its three source names.
FallbackOnly(d) ==
    /\ d.hasFallback
    /\ d.nameArgvLong = Undefined /\ d.nameArgvShort = Undefined /\ d.nameEnv = Undefined

\* C2: a descriptor that sets only a fallback is returned with that fallback,
\* whatever `argv` and `env` hold.
C2_FallbackOnly ==
    Returned =>
        \A k \in 1..Len(configDescriptors) :
            FallbackOnly(configDescriptors[k])
            => ObjGet(out, configDescriptors[k].nameReturned)
                 = configDescriptors[k].fallback

----------------------------------------------------------------------------
(* C3 *)

\* No source holds a value for d that coerces under its kind.
NoUsableValue(d) ==
    /\ Holds(Tokenized, d.nameArgvLong)
       => ~Coerces(d.kind, Tokenized.val[d.nameArgvLong.s])
    /\ Holds(Tokenized, d.nameArgvShort)
       => ~Coerces(d.kind, Tokenized.val[d.nameArgvShort.s])
    /\ EnvHolds(d) => ~Coerces(d.kind, EnvValue(d))

\* The first descriptor that is mandatory and that no source supplies, or 0.
FirstUnsupplied ==
    LET missed == {k \in 1..Len(configDescriptors) :
                       /\ ~configDescriptors[k].hasFallback
                       /\ NoUsableValue(configDescriptors[k])}
    IN IF missed = {} THEN 0 ELSE CHOOSE k \in missed : \A j \in missed : k <= j

\* C3: when the descriptors are valid and `argv` passes the check of unexpected
\* keys, a mandatory descriptor that no source supplies makes the call throw,
\* with the message that tells whether `argv` holds a value under its long or
\* short name and whether `env` holds its nameEnv.
C3_MandatoryMessage ==
    (Finished /\ Accepted /\ ArgvAllowed /\ FirstUnsupplied # 0) =>
        LET d == configDescriptors[FirstUnsupplied]
        IN /\ Thrown
           /\ error = MandatoryMessage(FirstUnsupplied, d.nameReturned,
                                       ArgvHolds(d), EnvHolds(d))

----------------------------------------------------------------------------
(* C4 *)

\* C4: when allowUnexpectedArgv is not set and `argv` tokenizes to a key that
\* no descriptor declares, the call throws, and the error names the first such
\* key, as -x when it is one character long and as --name otherwise.
C4_UnexpectedArgvThrows ==
    (/\ Finished /\ Accepted
     /\ ~Truthy(options.allowUnexpectedArgv)
     /\ Undeclared(configDescriptors, Tokenized) # <<>>) =>
        /\ Thrown
        /\ error = begin \o <<": '">>
                   \o (LET key == Head(Undeclared(configDescriptors, Tokenized))
                       IN IF Len(key) = 1 THEN <<"-">> \o key ELSE <<"--">> \o key)
                   \o <<"' in ^argv^ is not defined in ^configDescriptors^, and ^options.allowUnexpectedArgv^ is ^false^">>

----------------------------------------------------------------------------
(* C5 *)

\* Two tokenized maps hold the same under every name that name is one of.
AgreeUnder(name, t1, t2) ==
    /\ Holds(t1, name) <=> Holds(t2, name)
    /\ Holds(t1, name) => t1.val[name.s] = t2.val[name.s]

\* Two tokenized maps agree on the keys that the descriptors declare.
AgreeOnDeclared(cds, t1, t2) ==
    \A k \in 1..Len(cds) :
        /\ AgreeUnder(cds[k].nameArgvLong, t1, t2)
        /\ AgreeUnder(cds[k].nameArgvShort, t1, t2)

\* What a call gives back: the dictionary it returns or the message it throws.
Outcome(L) == [pc |-> L.pc, out |-> L.out, error |-> L.error]

\* The text that ends the error for an unexpected key of `argv`.
UnexpectedSuffix == UnexpectedMessage(<<"x">>)[Len(UnexpectedMessage(<<"x">>))]

\* C5: with allowUnexpectedArgv true, a call never throws the error for an
\* unexpected key, and gives back what it gives back for any other `argv`
\* whose tokenized map agrees with its own on every declared key.
C5_UndeclaredKeysIgnored ==
    (Finished /\ Truthy(options.allowUnexpectedArgv)) =>
        /\ Thrown => error[Len(error)] # UnexpectedSuffix
        /\ \A other \in ArgvUpTo(MaxArgvWide) :
               AgreeOnDeclared(configDescriptors, Tokenized, parseArgv(other).config)
               => Outcome(gatherConfig([In EXCEPT !.argv = other])) = Outcome(Locals)

----------------------------------------------------------------------------
(* C6 *)

\* The value that the step about to be taken finds in `env` or in the tokenized
\* `argv` for the descriptor at i and hands to the coercion: Undefined when it
\* hands none.
Found ==
    IF i \notin DOMAIN configDescriptors THEN Undefined
    ELSE
    LET d == configDescriptors[i]
    IN CASE pc = "envFirst" /\ HasProperty(d.nameEnv, env) -> ObjGet(env, d.nameEnv)
         [] pc = "envScan" /\ useFallbacks[i] /\ HasProperty(d.nameEnv, env) ->
                ObjGet(env, d.nameEnv)
         [] pc = "argvScan" /\ useFallbacks[i] /\ Truthy(argvKey(d, argvConfig)) ->
                ObjGet(argvConfig, argvKey(d, argvConfig))
         [] OTHER -> Undefined

\* The text of WARNINGS in a dictionary.
WarningsOf(dict) == JsToString(ObjGet(dict, Str(S_WARNINGS)))

\* later is earlier with exactly one more message, which a newline ends.
OneMessageMore(earlier, later) ==
    /\ Len(later) >= Len(earlier) + 2
    /\ SubSeq(later, 1, Len(earlier)) = earlier
    /\ later[Len(later)] = "\n"
    /\ \A k \in (Len(earlier) + 1)..(Len(later) - 1) : later[k] # "\n"

\* What C6 says of the step that hands Found to the coercion of a boolean.
C6_Step ==
    (Found # Undefined /\ configDescriptors[i].kind = "boolean") =>
        LET name == configDescriptors[i].nameReturned
        IN IF Found \in {Bool(TRUE), Str(S_true), Str(S_false)}
           THEN /\ ObjGet(out', name) = Bool(Found # Str(S_false))
                /\ ~useFallbacks'[i]
                /\ WarningsOf(out') = WarningsOf(out)
           ELSE /\ useFallbacks'[i]
                /\ pc' # "returned"
                /\ ObjGet(out', name) = ObjGet(out, name)
                /\ OneMessageMore(WarningsOf(out), WarningsOf(out'))

\* C6: a value found for a boolean descriptor resolves it to true when it is
\* the literal true or the string "true" and to false when it is the string
\* "false"; any other string resolves nothing, appends one message that a
\* newline ends to WARNINGS, and leaves the descriptor to the later sources.
C6_BooleanCoercion == [][C6_Step]_vars

\* A boolean descriptor whose value in `env` is "7" has been returned with its
\* fallback and a warning.
C6_Witness ==
    /\ Returned /\ Len(configDescriptors) = 1
    /\ configDescriptors[1].kind = "boolean"
    /\ EnvHolds(configDescriptors[1]) /\ EnvValue(configDescriptors[1]) = Str(<<"7">>)
    /\ ~ArgvHolds(configDescriptors[1])
    /\ ObjGet(out, N_returned) = configDescriptors[1].fallback
    /\ WarningsOf(out) # <<>>

----------------------------------------------------------------------------
(* C7 *)

\* The value that the order argv-long, argv-short, env, fallback gives d: the
\* first of them that holds a value which coerces under the kind of d.
FirstUsable(d) ==
    IF /\ Holds(Tokenized, d.nameArgvLong)
       /\ Coerces(d.kind, Tokenized.val[d.nameArgvLong.s])
    THEN Coerced(d.kind, Tokenized.val[d.nameArgvLong.s])
    ELSE IF /\ Holds(Tokenized, d.nameArgvShort)
            /\ Coerces(d.kind, Tokenized.val[d.nameArgvShort.s])
    THEN Coerced(d.kind, Tokenized.val[d.nameArgvShort.s])
    ELSE IF EnvHolds(d) /\ Coerces(d.kind, EnvValue(d))
    THEN Coerced(d.kind, EnvValue(d))
    ELSE d.fallback

\* C7: without preferEnv, every descriptor is returned with the value of the
\* first of argv-long, argv-short and env that holds a value which coerces
\* under its kind, and with its fallback when none does.
C7_SourceOrder ==
    (Returned /\ ~Truthy(options.preferEnv)) =>
        \A k \in 1..Len(configDescriptors) :
            ObjGet(out, configDescriptors[k].nameReturned)
              = FirstUsable(configDescriptors[k])

----------------------------------------------------------------------------
(* C8 *)

\* s is a decimal literal: digits around at most one ".".
IsDecimal(s) ==
    /\ AllIn(s, Digit \cup {"."})
    /\ \E k \in 1..Len(s) : s[k] \in Digit
    /\ Cardinality({k \in 1..Len(s) : s[k] = "."}) <= 1

\* The number that C8 gives the raw string s, or NaN when it gives none.
NumberOf(s) ==
    LET negative == s # <<>> /\ Head(s) = "-"
        unsigned == IF negative THEN Tail(s) ELSE s
        prefix == SliceTo(unsigned, 2)
        digits == SliceFrom(unsigned, 2)
        base == CASE prefix = <<"0","b">> -> 2
                  [] prefix = <<"0","x">> -> 16
                  [] prefix = <<"0","o">> -> 8
                  [] OTHER -> 10
        number == IF base = 10
                  THEN IF IsDecimal(unsigned) THEN parseFloat(unsigned) ELSE NaN
                  ELSE IF digits # <<>> /\ AllIn(digits, DigitsOf(base))
                  THEN Num(DigitsToInt(digits, base), 0)
                  ELSE NaN
    IN IF isNaN(number) THEN NaN
       ELSE IF negative THEN Negate(number)
       ELSE number

\* C8: a raw string found for a number descriptor resolves it to the number
\* that its digits denote in the base of its prefix, or as a decimal literal;
\* a string that is no such literal adds a warning and leaves the fallback.
C8_NumberCoercion ==
    (Returned /\ Len(configDescriptors) = 1 /\ configDescriptors[1].kind = "number"
     /\ EnvHolds(configDescriptors[1]) /\ ~ArgvHolds(configDescriptors[1])) =>
        LET number == NumberOf(EnvValue(configDescriptors[1]).s)
        IN IF isNaN(number)
           THEN /\ ObjGet(out, N_returned) = configDescriptors[1].fallback
                /\ WarningsOf(out) # <<>>
           ELSE /\ ObjGet(out, N_returned) = number
                /\ WarningsOf(out) = <<>>

----------------------------------------------------------------------------
(* C9 *)

\* C9: a call throws only for invalid descriptors, for a key of `argv` that no
\* descriptor declares, or for a mandatory descriptor that no source supplies;
\* a descriptor with a fallback whose values all fail to coerce is returned
\* with that fallback.
C9_WarningsNeverAbort ==
    /\ Thrown =>
           \/ ~Accepted
           \/ ~ArgvAllowed
           \/ FirstUnsupplied # 0
    /\ (Finished /\ Accepted /\ ArgvAllowed /\ FirstUnsupplied = 0) =>
           /\ Returned
           /\ \A k \in 1..Len(configDescriptors) :
                  (/\ configDescriptors[k].hasFallback
                   /\ NoUsableValue(configDescriptors[k]))
                  => ObjGet(out, configDescriptors[k].nameReturned)
                       = configDescriptors[k].fallback

----------------------------------------------------------------------------
(* C10 *)

\* w is made of messages of gatherConfig(), each ended by a newline.
IsWarningsText(w) ==
    /\ w # <<>> => w[Len(w)] = "\n"
    /\ \A k \in 1..Len(w) : (k = 1 \/ w[k - 1] = "\n") <=> w[k] = Head(begin)

\* C10: the dictionary returned has the key WARNINGS, a string made of the
\* warnings of the call, each ended by a newline, and of nothing else: it is
\* empty when every value found coerces.
C10_WarningsKey ==
    (Returned /\ Accepted) =>
        /\ Holds(out, Str(S_WARNINGS))
        /\ ObjGet(out, Str(S_WARNINGS)).t = "string"
        /\ IsWarningsText(WarningsOf(out))
        /\ (\A k \in 1..Len(configDescriptors) :
                LET d == configDescriptors[k]
                IN /\ Holds(Tokenized, d.nameArgvLong)
                      => Coerces(d.kind, Tokenized.val[d.nameArgvLong.s])
                   /\ Holds(Tokenized, d.nameArgvShort)
                      => Coerces(d.kind, Tokenized.val[d.nameArgvShort.s])
                   /\ EnvHolds(d) => Coerces(d.kind, EnvValue(d)))
           => WarningsOf(out) = <<>>

----------------------------------------------------------------------------
(* C11 *)

\* C11: the dictionary returned holds, under the nameReturned of every
\* descriptor, a boolean, a number or a string.
C11_OutputKeys ==
    Returned =>
        \A k \in 1..Len(configDescriptors) :
            /\ Holds(out, configDescriptors[k].nameReturned)
            /\ ObjGet(out, configDescriptors[k].nameReturned).t
                 \in {"boolean", "number", "string"}

----------------------------------------------------------------------------
(* C12 *)

\* The names that the descriptors declare for `env`.
DeclaredEnvNames(cds) ==
    {cds[k].nameEnv.s : k \in {j \in 1..Len(cds) : cds[j].nameEnv.t = "string"}}

\* obj without the entries whose key is not in keep.
Restricted(obj, keep) ==
    [keys |-> SelectSeq(obj.keys, LAMBDA x : x \in keep),
     val |-> [x \in OwnKeys(obj) \cap keep |-> obj.val[x]]]

\* C12: a call gives back what it gives back when the entries of `env` whose
\* key is the nameEnv of no descriptor are removed.
C12_UndeclaredEnvIgnored ==
    Finished =>
        Outcome(gatherConfig([In EXCEPT
                    !.env = Restricted(env, DeclaredEnvNames(configDescriptors))]))
          = Outcome(Locals)

----------------------------------------------------------------------------
(* The state machine: one call of validateConfigDescriptors() *)

\* The longest list of descriptors that explores collisions.
MaxColliding == 3

\* The longest list that explores the order of the checks.
MaxStaged == 3

N_upper == Str(<<"F">>)

\* One descriptor on its own: each sort of fallback, a kind that is none, long
\* names that are too short or inherited by every object, and each other name.
SingleDescriptors ==
    {Descriptor(fb # Undefined, fb, kind, long, short, envName, ret) :
        fb \in {Undefined, Bool(FALSE), Num(0, 0), Str(<<>>)},
        kind \in {"boolean", "bigint"},
        long \in {Undefined, N_long, N_short, Str(S_constructor)},
        short \in {Undefined, N_upper}, envName \in {Undefined, N_upper},
        ret \in {N_upper, N_returned, Str(S_constructor)}}

\* The descriptors of the longer lists: the same text in several namespaces.
CollidingDescriptors ==
    {Descriptor(TRUE, Str(<<>>), "string", long, short, envName, ret) :
        long \in {Undefined, N_long}, short \in {Undefined, N_upper},
        envName \in {Undefined, N_upper}, ret \in {N_upper, N_returned}}

\* The items of the lists that explore the order of the checks: two values
\* that are no object, a descriptor that passes, one that collides with it, one
\* with no possible value, one of a kind that is none, and one that is both.
StagedItems ==
    { Null, Num(1, 0),
      Descriptor(TRUE, Str(<<>>), "string", Undefined, Undefined, Undefined, N_returned),
      Descriptor(FALSE, Undefined, "string", Undefined, Undefined, N_upper, N_returned),
      Descriptor(FALSE, Undefined, "string", Undefined, Undefined, Undefined, N_returned2),
      Descriptor(TRUE, Str(<<>>), "bigint", Undefined, Undefined, Undefined, N_returned),
      Descriptor(FALSE, Undefined, "bigint", Undefined, Undefined, Undefined, N_returned) }

\* A JavaScript value of the model, and not a descriptor.
IsNoObject(x) == "t" \in DOMAIN x

\* aintaArray(configDescriptors, 'configDescriptors', { begin, types:['object'] })
\* for an array: the explanation for its first item that is no regular object.
aCDs(cds, pfx) ==
    LET bad == {k \in 1..Len(cds) : IsNoObject(cds[k])}
    IN IF bad = {} THEN <<>>
       ELSE LET k == CHOOSE x \in bad : \A y \in bad : x <= y
            IN pfx \o <<"^configDescriptors[">> \o IndexText(k) \o <<"]^ ">>
               \o (IF cds[k].t \in {"null", "array"}
                   THEN Article(cds[k]) \o <<", not a regular object">>
                   ELSE Article(cds[k]) \o <<", not the ^options.types^ 'object'">>)

\* begin = 'validateConfigDescriptors()'
defaultBegin == <<"validateConfigDescriptors()">>

\* `${begin ? begin + ': ' : '' }`
Prefix(bgn) == IF bgn # <<>> THEN bgn \o <<": ">> ELSE <<>>

InitValidator ==
    /\ \/ configDescriptors \in {<<d>> : d \in SingleDescriptors}
       \/ configDescriptors \in SeqsUpTo(CollidingDescriptors, MaxColliding)
       \/ configDescriptors \in SeqsUpTo(StagedItems, MaxStaged)
    /\ env = EmptyObject
    /\ argv = <<>>
    /\ options = [allowUnexpectedArgv |-> Bool(TRUE), preferEnv |-> Undefined]
    /\ pc = "array"
    /\ i = 1
    /\ out = EmptyObject
    /\ useFallbacks = <<>>
    /\ argvConfig = EmptyObject
    /\ parsed = FALSE
    /\ error = <<>>
    /\ TokenizerIs(ParseStart)

\* A check of validateConfigDescriptors() with the given result: an explanation
\* is returned, and <<>> goes on to the next check, or returns false at the end.
CheckGives(result, next) ==
    /\ pc' = IF result # <<>> THEN "returned" ELSE next
    /\ error' = result
    /\ UNCHANGED <<inputs, gatherLocals, i, tokenizer>>

CheckArray ==
    /\ pc = "array"
    /\ CheckGives(aCDs(configDescriptors, Prefix(defaultBegin)), "schema")

CheckSchema ==
    /\ pc = "schema"
    /\ CheckGives(JoinResults([k \in 1..Len(configDescriptors) |->
                      SchemaResult(configDescriptors, k, Prefix(defaultBegin))]),
                  "allUndefined")

CheckAllUndefined ==
    /\ pc = "allUndefined"
    /\ CheckGives(JoinResults([k \in 1..Len(configDescriptors) |->
                      AllUndefinedResult(configDescriptors, k, Prefix(defaultBegin))]),
                  "collisions")

CheckCollisions ==
    /\ pc = "collisions"
    /\ CheckGives(CollisionsFrom(configDescriptors, 1, NoNamesSeen, Prefix(defaultBegin)),
                  "returned")

NextValidator == CheckArray \/ CheckSchema \/ CheckAllUndefined \/ CheckCollisions

SpecValidator == InitValidator /\ [][NextValidator]_vars

----------------------------------------------------------------------------
(* The vocabulary of the properties of parseArgv() *)

\* `argv` was an array of strings, and the loop has started.
Tokenizing == pc \in {"loop", "returned"} /\ argv.t = "array" /\ aArgv(argv) = <<>>

\* The text of the k-th item of `argv`.
Token(k) == argv.items[k].s

\* The token matches one of the three flag patterns.
IsFlag(item) == MatchKeys(item) # <<>>

FlagPositions == {k \in 1..Len(argv.items) : IsFlag(Token(k))}

\* The position of the first flag of `argv`, or one past its end.
FirstFlag ==
    IF FlagPositions = {} THEN Len(argv.items) + 1
    ELSE CHOOSE k \in FlagPositions : \A j \in FlagPositions : k <= j

\* The loop handles the item it is at.
Handling == pc = "loop" /\ pc' = "loop" /\ i' = i + 1

----------------------------------------------------------------------------
(* C13 *)

\* While the loop has not reached the first flag, the tokens handled are
\* exactly `ignored`, nothing is a key or a value and skip mode is on; from the
\* first flag on they stay the head of `ignored` and skip mode is off.
C13_Prefix ==
    Tokenizing =>
        LET n == IF i - 1 < FirstFlag THEN i - 1 ELSE FirstFlag - 1
        IN /\ Len(ignored) >= n
           /\ \A k \in 1..n : ignored[k] = Token(k)
           /\ i - 1 < FirstFlag =>
                 /\ Len(ignored) = n
                 /\ config = EmptyObject
                 /\ isSkippingStart
           /\ i - 1 >= FirstFlag => ~isSkippingStart

\* Skip mode never resumes, and once it is off a token that is not a flag is
\* appended to `ignored` exactly when no flag is pending.
C13_Step ==
    (Handling /\ ~isSkippingStart) =>
        /\ ~isSkippingStart'
        /\ ~IsFlag(Item) =>
              IF currentKey = <<>> THEN ignored' = Append(ignored, Item)
              ELSE ignored' = ignored

\* C13: every token before the first flag token is appended to `ignored`, in
\* order and whatever its content, and none of them becomes a key or a value;
\* once a flag has been seen skip mode never resumes, so a later token that is
\* not a flag is ignored only when no flag is pending.
C13_SkipMode == []C13_Prefix /\ [][C13_Step]_vars

\* A call has returned that skipped tokens before its first flag, gave that
\* flag a value and ignored a token after it.
C13_Witness ==
    /\ pc = "returned" /\ Tokenizing
    /\ FirstFlag > 1
    /\ FirstFlag <= Len(argv.items)
    /\ Len(ignored) > FirstFlag - 1
    /\ \E x \in OwnKeys(config) : config.val[x].t = "string"

----------------------------------------------------------------------------
(* C14 *)

\* The names that the k-th token sets, as a set.
NamesAt(k) == {MatchKeys(Token(k))[j] : j \in 1..Len(MatchKeys(Token(k)))}

\* The names that occur in `argv`.
NamesOf == UNION {NamesAt(k) : k \in 1..Len(argv.items)}

\* The position of the last token in which the name occurs.
LastOccurrence(name) ==
    CHOOSE k \in 1..Len(argv.items) :
        /\ name \in NamesAt(k)
        /\ \A j \in (k + 1)..Len(argv.items) : name \notin NamesAt(j)

\* The name is what the k-th token leaves pending: the name of a long flag or
\* of a single short flag, or the final character of a run.
IsPendingAt(name, k) == MatchKeys(Token(k))[Len(MatchKeys(Token(k)))] = name

\* What the last occurrence of the name says its value is.
LastValue(name) ==
    LET p == LastOccurrence(name)
    IN IF p < Len(argv.items) /\ ~IsFlag(Token(p + 1)) /\ IsPendingAt(name, p)
       THEN Str(Token(p + 1))
       ELSE Bool(TRUE)

\* C14: in the result of parseArgv() the value under a flag name is determined
\* by the last occurrence of that name alone: the token that follows it when
\* that token is no flag and the occurrence is a long flag, a single short flag
\* or the final character of a run, and true otherwise.
C14_LastOccurrenceWins ==
    (pc = "returned" /\ Tokenizing) =>
        /\ OwnKeys(config) = NamesOf
        /\ \A name \in NamesOf : config.val[name] = LastValue(name)

\* A call has returned in which a name that had received a value occurred
\* again, and ended with another value.
C14_Witness ==
    /\ pc = "returned" /\ Tokenizing
    /\ \E name \in NamesOf : \E k \in 1..(LastOccurrence(name) - 2) :
          /\ IsFlag(Token(k)) /\ IsPendingAt(name, k)
          /\ ~IsFlag(Token(k + 1))
          /\ config.val[name] # Str(Token(k + 1))

----------------------------------------------------------------------------
(* C15 *)

\* One dash followed by two or more characters from [A-Za-z?].
IsRun(item) ==
    Len(item) >= 3 /\ item[1] = "-" /\ \A k \in 2..Len(item) : item[k] \in ShortChars

\* The characters of a run, as key names from left to right.
RunKeys(item) == [k \in 1..(Len(item) - 1) |-> <<item[k + 1]>>]

\* The place of a key among the keys of an object.
KeyIndex(obj, key) == CHOOSE k \in 1..Len(obj.keys) : obj.keys[k] = key

\* The loop handles a run: every character becomes a key with the value true,
\* new keys are added from left to right, and the final character is pending.
C15_RunStep ==
    (Handling /\ IsRun(Item)) =>
        LET run == RunKeys(Item)
        IN /\ \A k \in 1..Len(run) :
                 run[k] \in OwnKeys(config') /\ config'.val[run[k]] = Bool(TRUE)
           /\ \A x \in OwnKeys(config) \ {run[k] : k \in 1..Len(run)} :
                 config'.val[x] = config.val[x]
           /\ \A j, k \in 1..Len(run) :
                 (j < k /\ run[j] # run[k] /\ {run[j], run[k]} \cap OwnKeys(config) = {}
                    /\ \A m \in 1..(k - 1) : run[m] # run[k])
                 => KeyIndex(config', run[j]) < KeyIndex(config', run[k])
           /\ currentKey' = run[Len(run)]

\* The loop handles a token that is no flag right after a run: the token is
\* the value of the final character, and the earlier characters (all of them,
\* or those that differ from the final one) have the value true.
ValueAfterRun(othersOnly) ==
    (Handling /\ i > 1 /\ ~IsFlag(Item)) =>
        (IsRun(Token(i - 1)) =>
            LET run == RunKeys(Token(i - 1))
            IN /\ config'.val[run[Len(run)]] = Str(Item)
               /\ \A k \in 1..(Len(run) - 1) :
                     (othersOnly => run[k] # run[Len(run)])
                     => config'.val[run[k]] = Bool(TRUE)
               /\ currentKey' = <<>>
               /\ ignored' = ignored)

\* C15, as claimed: a run sets every one of its characters as a key with the
\* value true, from left to right, and leaves only its final character
\* pending; a following token that is no flag becomes the value of the final
\* character only, and every earlier character of the run keeps true.
C15_ShortRuns == [][C15_RunStep /\ ValueAfterRun(FALSE)]_vars

\* C15, amended: every earlier character of the run that differs from the
\* final character keeps the value true.
C15_ShortRunsDistinct == [][C15_RunStep /\ ValueAfterRun(TRUE)]_vars

\* The loop has just given the final character of a run a value, and an
\* earlier, different character of the run has kept true.
C15_Witness ==
    /\ pc = "loop" /\ Tokenizing
    /\ i > 2
    /\ IsRun(Token(i - 2))
    /\ ~IsFlag(Token(i - 1))
    /\ LET run == RunKeys(Token(i - 2))
       IN /\ run[1] # run[Len(run)]
          /\ config.val[run[1]] = Bool(TRUE)
          /\ config.val[run[Len(run)]] = Str(Token(i - 1))

----------------------------------------------------------------------------
(* C16 *)

\* Skip mode has ended and a flag is pending: a token that is no flag replaces
\* the true of that flag and nothing else, and no flag is pending afterwards.
C16_ValueStep ==
    (Handling /\ ~isSkippingStart /\ currentKey # <<>> /\ ~IsFlag(Item)) =>
        /\ config.val[currentKey] = Bool(TRUE)
        /\ config'.keys = config.keys
        /\ config'.val = [config.val EXCEPT ![currentKey] = Str(Item)]
        /\ currentKey' = <<>>
        /\ ignored' = ignored

\* A token that is no flag and follows a token that is no flag is appended to
\* `ignored`, and changes no key and no value.
C16_NextStep ==
    (Handling /\ i > 1 /\ ~IsFlag(Item)) =>
        (~IsFlag(Token(i - 1)) =>
            /\ ignored' = Append(ignored, Item)
            /\ config' = config)

\* C16: a flag occurrence receives at most one value: once skip mode has
\* ended, a token that is no flag becomes the value of the pending flag and the
\* pending flag is cleared, so the next token that is no flag, when no other
\* flag precedes it, is appended to `ignored`.
C16_AtMostOneValue == [][C16_ValueStep /\ C16_NextStep]_vars

\* The loop has just ignored the second of two tokens that follow a flag, the
\* first of which is the value of that flag.
C16_Witness ==
    /\ pc = "loop" /\ Tokenizing
    /\ i > 3
    /\ IsFlag(Token(i - 3)) /\ ~IsFlag(Token(i - 2)) /\ ~IsFlag(Token(i - 1))
    /\ \E name \in NamesAt(i - 3) : config.val[name] = Str(Token(i - 2))
    /\ ignored # <<>>
    /\ ignored[Len(ignored)] = Token(i - 1)
    /\ Token(i - 1) # Token(i - 2)

----------------------------------------------------------------------------
(* C17 *)

\* Two dashes, a lowercase letter, then one or more of [-a-z0-9].
LongPattern(item) ==
    /\ Len(item) >= 4
    /\ item[1] = "-" /\ item[2] = "-"
    /\ item[3] \in Lower
    /\ \A k \in 4..Len(item) : item[k] \in Lower \cup Digit \cup {"-"}

\* One dash, then exactly one of [?A-Za-z].
ShortPattern(item) == Len(item) = 2 /\ item[1] = "-" /\ item[2] \in ShortChars

\* The token is empty, or starts with a dash and matches none of the patterns.
IsDashValue(item) ==
    \/ item = <<>>
    \/ item[1] = "-" /\ ~LongPattern(item) /\ ~ShortPattern(item) /\ ~IsRun(item)

\* The loop handles such a token: no key is created; the token becomes the
\* value of the pending flag when there is one, and goes to `ignored` otherwise.
C17_Step ==
    (Handling /\ IsDashValue(Item)) =>
        /\ config'.keys = config.keys
        /\ isSkippingStart' = isSkippingStart
        /\ IF currentKey # <<>>
           THEN /\ config'.val = [config.val EXCEPT ![currentKey] = Str(Item)]
                /\ ignored' = ignored
                /\ currentKey' = <<>>
           ELSE /\ config' = config
                /\ ignored' = Append(ignored, Item)
                /\ currentKey' = currentKey

\* C17: a token that starts with a dash but matches none of the three flag
\* patterns never creates a key and is handled like a token without a leading
\* dash: it becomes the value of the pending flag if there is one and is
\* appended to `ignored` otherwise; so is the empty string.
C17_DashValues == [][C17_Step]_vars

\* The loop has just made a token with a leading dash the value of a flag, and
\* has ignored another one before.
C17_Witness ==
    /\ pc = "loop" /\ Tokenizing
    /\ i > 2
    /\ IsFlag(Token(i - 2))
    /\ Token(i - 1) # <<>> /\ IsDashValue(Token(i - 1))
    /\ \E name \in NamesAt(i - 2) : config.val[name] = Str(Token(i - 1))
    /\ \E k \in 1..Len(ignored) : ignored[k] # <<>> /\ IsDashValue(ignored[k])

----------------------------------------------------------------------------
(* C18 *)

\* A key as a flag: in long form, or (byLength) in the form its length calls
\* for, -k for a single character and --key otherwise.
FlagOf(key, byLength) ==
    IF byLength /\ Len(key) = 1 THEN <<"-">> \o key ELSE <<"-", "-">> \o key

\* The canonical argv of a config map: each key as a flag, in the order of the
\* keys, followed by its value when the value is a string.
RECURSIVE CanonicalFrom(_, _, _)
CanonicalFrom(obj, k, byLength) ==
    IF k > Len(obj.keys) THEN <<>>
    ELSE LET key == obj.keys[k]
             v == obj.val[key]
         IN <<FlagOf(key, byLength)>>
            \o (IF v.t = "string" THEN <<v.s>> ELSE <<>>)
            \o CanonicalFrom(obj, k + 1, byLength)

\* C18, as claimed: for every array of strings, the canonical argv that emits
\* each key of parseArgv(argv).config in long form followed by its value
\* tokenizes to a config map equal to that one.
C18_RoundTrip ==
    (pc = "returned" /\ Tokenizing) =>
        parseArgv(CanonicalFrom(config, 1, FALSE)).config = config

\* C18, amended: the canonical argv emits a key of one character in short form
\* and any other key in long form.
C18_RoundTripByLength ==
    (pc = "returned" /\ Tokenizing) =>
        LET again == parseArgv(CanonicalFrom(config, 1, TRUE))
        IN again.config = config /\ again.ignored = <<>>

\* A call has returned a map with a short key and a long key, a value that is
\* a string and a value that is true.
C18_Witness ==
    /\ pc = "returned" /\ Tokenizing
    /\ \E x, y \in OwnKeys(config) :
          /\ Len(x) = 1 /\ Len(y) > 1
          /\ {config.val[x].t, config.val[y].t} = {"string", "boolean"}
    /\ ignored # <<>>

----------------------------------------------------------------------------
(* C19 *)

\* The argument is an array whose elements are all strings.
IsArrayOfStrings(v) ==
    v.t = "array" /\ \A k \in 1..Len(v.items) : v.items[k].t = "string"

\* The strings of `argv`.
TokensOf == {Str(argv.items[k].s) : k \in 1..Len(argv.items)}

\* C19: parseArgv() throws if and only if its argument is not an array whose
\* elements are all strings, and then it has produced no partial result; for
\* every array of strings, the empty one and those with empty strings
\* included, it goes on until it returns a config map whose values are each
\* true or a string of argv, together with a list of ignored strings of argv.
C19_ThrowsOrReturns ==
    /\ pc = "thrown" =>
          /\ ~IsArrayOfStrings(argv)
          /\ error # <<>>
          /\ config = EmptyObject /\ ignored = <<>>
    /\ pc \in {"loop", "returned"} =>
          /\ IsArrayOfStrings(argv)
          /\ i \in 1..(Len(argv.items) + 1)
          /\ \A x \in OwnKeys(config) : config.val[x] \in {Bool(TRUE)} \cup TokensOf
          /\ \A k \in 1..Len(ignored) : Str(ignored[k]) \in TokensOf
    /\ pc = "returned" => i = Len(argv.items) + 1
    /\ pc \in {"parseArgv", "loop"} => ENABLED NextParse

\* A call has thrown for an array whose first item is a string.
C19_Witness ==
    /\ pc = "thrown"
    /\ argv.t = "array"
    /\ Len(argv.items) = 2
    /\ argv.items[1].t = "string"

----------------------------------------------------------------------------
(* C20 *)

\* The descriptor has one of `fallback`, `nameArgvLong`, `nameArgvShort` and
\* `nameEnv` defined.
HasPossibleValue(d) ==
    \/ d.fallback # Undefined
    \/ d.nameArgvLong # Undefined
    \/ d.nameArgvShort # Undefined
    \/ d.nameEnv # Undefined

\* The values of one namespace are pairwise distinct.
Distinct(cds, field) ==
    \A j, k \in 1..Len(cds) :
        (j < k /\ cds[j][field] # Undefined) => cds[j][field] # cds[k][field]

\* C20: for an array, validateConfigDescriptors() returns false if and only
\* if its items are plain objects, every descriptor satisfies the field rules and has one
\* of `fallback`, `nameArgvLong`, `nameArgvShort`, `nameEnv` defined (a falsy
\* fallback counts as defined) and, within each of the four namespaces, the
\* names are pairwise distinct; the same text in two namespaces is no
\* collision, and every name the patterns permit is accepted when it is unique.
C20_FalseIffValid ==
    pc = "returned" =>
        (error = <<>> <=>
            /\ \A k \in 1..Len(configDescriptors) : ~IsNoObject(configDescriptors[k])
            /\ \A k \in 1..Len(configDescriptors) :
                  /\ SchemaFailures(configDescriptors[k]) = {}
                  /\ HasPossibleValue(configDescriptors[k])
            /\ \A k \in 1..Len(CollisionFields) :
                  Distinct(configDescriptors, CollisionFields[k]))

----------------------------------------------------------------------------
(* The vocabulary of the properties of validateConfigDescriptors() *)

SchemaMark == "^ breaks its schema rule"

NoValueMark == "' has no possible value, because ^fallback^, ^nameArgvLong^, ^nameArgvShort^ and ^nameEnv^ are all undefined"

UsedMark == "' was already used by ^configDescriptors["

\* How many times a chunk occurs in a text.
Count(text, chunk) == Cardinality({k \in 1..Len(text) : text[k] = chunk})

\* The indices that the messages of a text are about, in the order of the
\* messages: each follows the chunk that opens ^configDescriptors[ .
RECURSIVE OffendersFrom(_, _)
OffendersFrom(text, k) ==
    IF k >= Len(text) THEN <<>>
    ELSE (IF text[k] = "^configDescriptors[" THEN <<text[k + 1]>> ELSE <<>>)
         \o OffendersFrom(text, k + 1)

\* The members of a set of positions as index texts, in ascending order.
RECURSIVE Ascending(_, _, _)
Ascending(S, k, n) ==
    IF k > n THEN <<>>
    ELSE (IF k \in S THEN IndexText(k) ELSE <<>>) \o Ascending(S, k + 1, n)

\* Descriptor k has, in some namespace, the name of a descriptor before it.
SharesEarlier(cds, k) ==
    \E j \in 1..(k - 1) : \E f \in 1..Len(CollisionFields) :
        /\ cds[j][CollisionFields[f]] # Undefined
        /\ cds[j][CollisionFields[f]] = cds[k][CollisionFields[f]]

\* The text holds one message for each position of S, in ascending order and
\* joined by newlines, and each message holds the mark.
ReportsAll(text, S, mark, n) ==
    /\ OffendersFrom(text, 1) = Ascending(S, 1, n)
    /\ Count(text, mark) = Cardinality(S)
    /\ Count(text, "\n") = IF S = {} THEN 0 ELSE Cardinality(S) - 1

----------------------------------------------------------------------------
(* C21 *)

\* C21: validateConfigDescriptors() returns the violations of the earliest
\* failing check only - an item that is no plain object, then the field rules,
\* then descriptors with no possible value, then collisions - and within the
\* failing check the violations of all elements, joined by newlines, in the
\* order of their indices.
C21_EarliestStageOnly ==
    pc = "returned" =>
        LET cds == configDescriptors
            n == Len(cds)
            noObject == {k \in 1..n : IsNoObject(cds[k])}
            broken == {k \in 1..n : SchemaFailures(cds[k]) # {}}
            noValue == {k \in 1..n : ~HasPossibleValue(cds[k])}
            colliding == {k \in 1..n : SharesEarlier(cds, k)}
        IN IF noObject # {}
           THEN /\ OffendersFrom(error, 1) = Ascending(noObject, 1, n)
                /\ {Count(error, SchemaMark), Count(error, NoValueMark),
                     Count(error, UsedMark)} = {0}
           ELSE IF broken # {}
           THEN /\ ReportsAll(error, broken, SchemaMark, n)
                /\ {Count(error, NoValueMark), Count(error, UsedMark)} = {0}
           ELSE IF noValue # {}
           THEN /\ ReportsAll(error, noValue, NoValueMark, n)
                /\ {Count(error, SchemaMark), Count(error, UsedMark)} = {0}
           ELSE /\ ReportsAll(error, colliding, UsedMark, n)
                /\ {Count(error, SchemaMark), Count(error, NoValueMark)} = {0}

----------------------------------------------------------------------------
(* C22 *)

\* The call has returned after the collision check: every check before it
\* found nothing.
ReachedCollisions ==
    /\ pc = "returned"
    /\ \A k \in 1..Len(configDescriptors) :
          /\ ~IsNoObject(configDescriptors[k])
          /\ SchemaFailures(configDescriptors[k]) = {}
          /\ HasPossibleValue(configDescriptors[k])

\* The indices that the returned messages name as offenders.
Offenders == {OffendersFrom(error, 1)[k] : k \in 1..Len(OffendersFrom(error, 1))}

\* C22: the collision check does not stop at the first collision: every
\* descriptor that shares a nameArgvLong, nameArgvShort, nameEnv or
\* nameReturned with a descriptor at a lower index is the offender of a
\* returned message, also when that other descriptor was itself reported for a
\* collision in another namespace.
C22_EveryCollisionReported ==
    ReachedCollisions =>
        \A k \in 1..Len(configDescriptors) :
            SharesEarlier(configDescriptors, k) => IndexText(k)[1] \in Offenders

----------------------------------------------------------------------------
(* C23 *)

\* The lowest index that holds the nameReturned of descriptor k.
FirstHolder(cds, k) ==
    CHOOSE j \in 1..k :
        /\ cds[j].nameReturned = cds[k].nameReturned
        /\ \A m \in 1..(j - 1) : cds[m].nameReturned # cds[k].nameReturned

\* The collision message for the nameReturned of descriptor k, after `begin`.
ReturnedMessage(cds, k) ==
    <<"^configDescriptors[">> \o IndexText(k) \o <<"].", "nameReturned", "^ '">>
    \o cds[k].nameReturned.s \o <<UsedMark>> \o IndexText(FirstHolder(cds, k))
    \o <<"]^">>

\* The text holds the part.
Contains(text, part) ==
    \E p \in 1..(Len(text) - Len(part) + 1) :
        \A k \in 1..Len(part) : text[p + k - 1] = part[k]

\* C23: for every list that passes the earlier checks and in which descriptors
\* share a nameReturned, validateConfigDescriptors() returns a text that names,
\* for each later one of them, that index as the offender and the lowest index
\* holding the value as the prior owner.
C23_ReturnedCollisions ==
    ReachedCollisions =>
        \A k \in 1..Len(configDescriptors) :
            FirstHolder(configDescriptors, k) < k =>
                /\ error # <<>>
                /\ Contains(error, ReturnedMessage(configDescriptors, k))

----------------------------------------------------------------------------
(* C24 *)

\* `env` supplies a value for the descriptor that its kind accepts.
ResolvedFromEnv(d) ==
    HasProperty(d.nameEnv, env) /\ Coerces(d.kind, ObjGet(env, d.nameEnv))

AllFromEnv ==
    \A k \in 1..Len(configDescriptors) : ResolvedFromEnv(configDescriptors[k])

----------------------------------------------------------------------------
(* C25 *)

\* The explanations for the shapes of `env` and `options`, joined by a newline.
ShapeErrors ==
    IF aEnv(env) # <<>> /\ aOptions(options) # <<>>
    THEN aEnv(env) \o <<"\n">> \o aOptions(options)
    ELSE aEnv(env) \o aOptions(options)

MandatoryMark == "' is mandatory, but it has no ^fallback^ - "

\* An invalid list of descriptors is thrown whatever `env` and `options` are.
C25_DescriptorsFirst ==
    ~Accepted => (Thrown /\ error = validateConfigDescriptors(configDescriptors, begin))

\* The shape errors are thrown together, before `argv` is tokenized or a value
\* resolved.
C25_ShapesNext ==
    (Accepted /\ ShapeErrors # <<>>) =>
        (Thrown /\ error = ShapeErrors /\ ~parsed /\ out = EmptyObject)

\* An undeclared flag is thrown before a mandatory value that is missing.
C25_UnexpectedBeforeMandatory ==
    (/\ Accepted /\ ShapeErrors = <<>>
     /\ ~Truthy(options.allowUnexpectedArgv)
     /\ Undeclared(configDescriptors, Tokenized) # <<>>
     /\ FirstUnsupplied # 0) =>
        (Thrown /\ error = UnexpectedMessage(Head(Undeclared(configDescriptors, Tokenized))))

\* A mandatory-value error names the first mandatory descriptor left unresolved.
C25_LowestMandatory ==
    (Thrown /\ Count(error, MandatoryMark) > 0) =>
        /\ FirstUnsupplied # 0
        /\ Contains(error, <<": ^configDescriptors[">> \o IndexText(FirstUnsupplied)
                               \o <<"]^ '">>)

\* C25: gatherConfig() reports failures in a fixed order: an invalid list of
\* descriptors before `env`, `argv` or `options` are examined; then the shape
\* errors of the arguments, together in one message, before `argv` is
\* tokenized or a value resolved; an undeclared flag of `argv` before any
\* mandatory-value error; and a mandatory-value error names the unresolved
\* mandatory descriptor of the lowest index.
C25_FailureOrder ==
    Finished =>
        /\ C25_DescriptorsFirst
        /\ C25_ShapesNext
        /\ C25_UnexpectedBeforeMandatory
        /\ C25_LowestMandatory

----------------------------------------------------------------------------
(* C26 *)

\* The chunks that open the identifier of a warning: ^env. for a value of
\* `env`, '-- and '- for a flag of `argv`.
EnvMark == "^env."

LongMark == "'--"

ShortMark == "'-"

\* The positions of a text at which the identifier of a warning begins.
MarksOf(text) == {p \in 1..Len(text) : text[p] \in {EnvMark, LongMark, ShortMark}}

\* The chunks of the text from position p up to the chunk stop.
RECURSIVE TakeUntil(_, _, _)
TakeUntil(text, p, stop) ==
    IF p > Len(text) \/ text[p] = stop THEN <<>>
    ELSE <<text[p]>> \o TakeUntil(text, p + 1, stop)

\* The warning whose identifier begins at p is about a value for d.
WarnsAbout(text, p, d) ==
    CASE text[p] = EnvMark ->
             TakeUntil(text, p + 1, "^") = JsToString(d.nameEnv)
      [] text[p] = LongMark ->
             TakeUntil(text, p + 1, "' in ^argv^") = JsToString(d.nameArgvLong)
      [] OTHER ->
             TakeUntil(text, p + 1, "' in ^argv^") = JsToString(d.nameArgvShort)

\* 1 for a warning from the source that the call scans first, 2 for one from
\* the source it scans second.
ScanRank(text, p) ==
    IF (text[p] = EnvMark) <=> Truthy(options.preferEnv) THEN 1 ELSE 2

\* The warnings of the text are in scan order: each can be given a descriptor
\* that it is about so that ranks never decrease, and indices ascend strictly
\* within one rank.
InScanOrder(text) ==
    \E f \in [MarksOf(text) -> DOMAIN configDescriptors] :
        /\ \A p \in MarksOf(text) : WarnsAbout(text, p, configDescriptors[f[p]])
        /\ \A p, q \in MarksOf(text) :
               p < q => \/ ScanRank(text, p) < ScanRank(text, q)
                        \/ /\ ScanRank(text, p) = ScanRank(text, q)
                           /\ f[p] < f[q]

\* C26: at every point of a call, the warnings that WARNINGS holds are in scan
\* order: those from the source scanned first (env when preferEnv is true, argv
\* otherwise) come before those from the source scanned second, within one
\* source they follow ascending descriptor index, and no descriptor has two
\* warnings from one source.
C26_WarningsInScanOrder == InScanOrder(WarningsOf(out))

\* A call has returned warnings from both sources.
C26_Witness ==
    /\ Returned
    /\ \E p, q \in MarksOf(WarningsOf(out)) :
           ScanRank(WarningsOf(out), p) # ScanRank(WarningsOf(out), q)

----------------------------------------------------------------------------
(* C27 *)

\* The descriptor at k has been resolved from a source.
Resolved(k) == k \in DOMAIN useFallbacks /\ useFallbacks[k] = FALSE

\* What C27 says of one step of a call, for every descriptor resolved before it.
C27_Step ==
    \A k \in DOMAIN configDescriptors :
        Resolved(k) =>
            /\ k \in DOMAIN useFallbacks' /\ useFallbacks'[k] = FALSE
            /\ ObjGet(out', configDescriptors[k].nameReturned)
                   = ObjGet(out, configDescriptors[k].nameReturned)
            /\ (i = k /\ pc \in {"envFirst", "argvScan", "envScan"}) =>
                   WarningsOf(out') = WarningsOf(out)

\* C27: once a descriptor has been resolved from a source, no step of the call
\* changes its entry in the output (neither a later source nor the fallback),
\* its resolved flag stays set, and the scan of a later source adds no warning
\* for it.
C27_ResolvedIsFinal == [][C27_Step]_vars

----------------------------------------------------------------------------
(* C28 *)

\* C28: at every point of a call, the value that the output holds for a
\* descriptor resolved from `argv` or `env` has the runtime type that the
\* descriptor's kind names: a boolean for 'boolean', a number for 'number', a
\* string for 'string'.
C28_ValueHasKind ==
    \A k \in DOMAIN configDescriptors :
        Resolved(k) =>
            ObjGet(out, configDescriptors[k].nameReturned).t = configDescriptors[k].kind

----------------------------------------------------------------------------
(* C29 *)

\* After every processed token: in skip mode config is empty and no flag is
\* pending, and a pending flag is a key of config whose value is true, namely
\* the last key of the token handled last.
C29_Scan ==
    Tokenizing =>
        /\ isSkippingStart => (config = EmptyObject /\ currentKey = <<>>)
        /\ currentKey # <<>> =>
              /\ currentKey \in OwnKeys(config)
              /\ config.val[currentKey] = Bool(TRUE)
              /\ i > 1
              /\ IsFlag(Token(i - 1))
              /\ currentKey = MatchKeys(Token(i - 1))[Len(MatchKeys(Token(i - 1)))]

\* Handling a token removes no key of config.
C29_Step == Handling => OwnKeys(config) \subseteq OwnKeys(config')

\* C29: the invariant of parseArgv()'s scan, holding after every processed
\* token: while skip mode is on, config is empty and no flag is pending; a
\* pending flag is a key of config whose current value is true, and it is the
\* last key set by the token processed last; keys are only added to config,
\* never removed.
C29_ScanInvariant == []C29_Scan /\ [][C29_Step]_vars

\* The loop has skipped a token, given a flag its value and left the flag of
\* the token handled last pending.
C29_Witness ==
    /\ pc = "loop" /\ Tokenizing
    /\ ignored # <<>>
    /\ currentKey # <<>>
    /\ \E key \in OwnKeys(config) : config.val[key].t = "string"

----------------------------------------------------------------------------
(* C30 *)

\* The positions of the tokens that are no flag and follow a flag at once.
ValuePositions ==
    {k \in 2..Len(argv.items) : ~IsFlag(Token(k)) /\ IsFlag(Token(k - 1))}

\* The first n tokens without the flags and without the tokens that follow a
\* flag at once, in the order of `argv`.
RECURSIVE RestUpTo(_)
RestUpTo(n) ==
    IF n = 0 THEN <<>>
    ELSE IF IsFlag(Token(n)) \/ n \in ValuePositions THEN RestUpTo(n - 1)
    ELSE Append(RestUpTo(n - 1), Token(n))

\* `ignored` holds the tokens handled so far that are neither a flag nor a
\* value, in their order; at the return the three groups make up `argv`.
C30_Accounted ==
    Tokenizing =>
        /\ ignored = RestUpTo(i - 1)
        /\ Returned =>
              Cardinality(FlagPositions) + Cardinality(ValuePositions) + Len(ignored)
                  = Len(argv.items)

\* Handling a token does one of three things: a flag sets its keys and leaves
\* `ignored` alone; a token right after a flag becomes the value of the pending
\* key and leaves `ignored` alone; any other token is appended to `ignored`
\* and leaves config alone.
C30_Step ==
    Handling =>
        IF IsFlag(Item)
        THEN /\ ignored' = ignored
             /\ \A k \in 1..Len(MatchKeys(Item)) :
                    config'.val[MatchKeys(Item)[k]] = Bool(TRUE)
        ELSE IF i \in ValuePositions
        THEN /\ ignored' = ignored
             /\ currentKey # <<>>
             /\ config'.keys = config.keys
             /\ config'.val = [config.val EXCEPT ![currentKey] = Str(Item)]
        ELSE /\ ignored' = Append(ignored, Item)
             /\ config' = config

\* C30: for every array of strings, each element of `argv` is accounted for
\* exactly once: it matched a flag pattern, or it was assigned as a value (only
\* when the element right before it matched a flag pattern), or it was appended
\* to `ignored`; `ignored` is a subsequence of `argv` in the original order, and
\* the flags, the values and `ignored` together are as many as `argv` is long.
C30_Conservation == []C30_Accounted /\ [][C30_Step]_vars

\* A call has returned with a flag, the value of a flag, a token ignored before
\* the first flag and a token ignored after it.
C30_Witness ==
    /\ Returned /\ Tokenizing
    /\ FirstFlag = 2
    /\ 3 \in ValuePositions
    /\ Len(argv.items) = 4 /\ ~IsFlag(Token(4))
    /\ ignored = <<Token(1), Token(4)>>

====
